---- MODULE Spec2Model ----
(***************************************************************************)
(* Model of the property-search server: the POST /property/search handler  *)
(* of server/routes.ts (query attribute extraction, provider calls,        *)
(* fallback text matcher, attribute boosting, ranking, normalisation),     *)
(* getEmbedding of server/services/openai.ts and searchVectors of          *)
(* server/services/pinecone.ts.                                            *)
(*                                                                         *)
(* Text is a sequence of characters.  It is written as a sequence of    *)
(* symbols, a symbol being one character or a word, and Text spells the    *)
(* words out.  Scores are fixed point: Pts(h) is h hundredths, held in     *)
(* units of 1/600 so that 0.1 * k / n is exact for every n up to 6.        *)
(***************************************************************************)
EXTENDS Integers, Sequences, FiniteSets, TLC

VARIABLES
    env,                \* process.env: which provider keys are set
    properties,         \* MemStorage.properties: the listing table
    pc,                 \* position of the request in the handler
    body,               \* req.body of the request being served
    specificAttributes, \* attributes extracted from the query
    attempt,            \* getEmbedding: attempt
    delays,             \* getEmbedding: the sleeps taken, in ms
    embedCalls,         \* calls of openai.embeddings.create for this request
    searchCalls,        \* calls of index.query for this request
    queryEmbedding,     \* handler local: "undefined" or "vector"
    providerError,      \* the error a provider call of this request raised
    searchResults,      \* handler local: matches of the vector search
    fallbackUsed,       \* the fallback text matcher ran for this request
    results,            \* handler local: results after the final sort
    topResults,         \* handler local: the normalised top slice
    responses,          \* what res.status(..).json(..) sent for this request
    filtersResponse,    \* what GET /property/filters sent last
    loadPc,             \* loadPropertyDataFromCSV: position of each invocation
    isDataInitialized,  \* api/index.js: isDataInitialized
    writers,            \* the invocations that have written listings
    servedFrom,         \* the table a request has been served from
    csvFile,            \* the listings of the CSV file, << >> without a file
    filterOptions,      \* client: filterOptions
    filters,            \* client: filters
    clientResults,      \* client: searchResults
    filteredResults     \* client: filteredResults

\* the locals of the search handler
handlerVars == << pc, body, specificAttributes, attempt, delays, embedCalls,
                  searchCalls, queryEmbedding, providerError, searchResults,
                  fallbackUsed, results, topResults, responses >>

loadVars == << loadPc, isDataInitialized, writers, servedFrom, csvFile >>

clientVars == << filterOptions, filters, clientResults, filteredResults >>

vars == << env, properties, handlerVars, filtersResponse, loadVars, clientVars >>

----------------------------------------------------------------------------
(* Bounds of the model *)

MaxQueryLen == 6
MaxMatches == 2

----------------------------------------------------------------------------
(* Text *)

Digits == {"0", "1", "2", "3", "4", "5", "6", "7", "8", "9"}

Letters == {"a", "b", "c", "d", "e", "f", "g", "h", "i", "j", "k", "l", "m",
            "n", "o", "p", "q", "r", "s", "t", "u", "v", "w", "x", "y", "z"}

DigitVal(d) ==
    CASE d = "0" -> 0 [] d = "1" -> 1 [] d = "2" -> 2 [] d = "3" -> 3
      [] d = "4" -> 4 [] d = "5" -> 5 [] d = "6" -> 6 [] d = "7" -> 7
      [] d = "8" -> 8 [] d = "9" -> 9

\* \s of the regular expressions
Whitespace == {" "}

\* [\s-] of bedroomMatch and bathroomMatch
CountSeparators == Whitespace \cup {"-"}

\* \w of the regular expressions
WordChars == Letters \cup Digits \cup {"_"}

\* the characters of a word; any other symbol is one character
Chars(w) ==
    CASE w = "bed" -> << "b", "e", "d" >>
      [] w = "bath" -> << "b", "a", "t", "h" >>
      [] w = "room" -> << "r", "o", "o", "m" >>
      [] w = "flat" -> << "f", "l", "a", "t" >>
      [] w = "house" -> << "h", "o", "u", "s", "e" >>
      [] w = "town" -> << "t", "o", "w", "n" >>
      [] w = "studio" -> << "s", "t", "u", "d", "i", "o" >>
      [] w = "modern" -> << "m", "o", "d", "e", "r", "n" >>
      [] w = "victorian" -> << "v", "i", "c", "t", "o", "r", "i", "a", "n" >>
      [] w = "river" -> << "r", "i", "v", "e", "r" >>
      [] w = "view" -> << "v", "i", "e", "w" >>
      [] w = "no" -> << "n", "o" >>
      [] w = "in" -> << "i", "n" >>
      [] w = "with" -> << "w", "i", "t", "h" >>
      [] w = "located" -> << "l", "o", "c", "a", "t", "e", "d" >>
      [] w = "furnished" -> << "f", "u", "r", "n", "i", "s", "h", "e", "d" >>
      [] w = "garden" -> << "g", "a", "r", "d", "e", "n" >>
      [] w = "zzz" -> << "z", "z", "z" >>
      [] w = "apartment" -> << "a", "p", "a", "r", "t", "m", "e", "n", "t" >>
      [] w = "cottage" -> << "c", "o", "t", "t", "a", "g", "e" >>
      [] w = "bungalow" -> << "b", "u", "n", "g", "a", "l", "o", "w" >>
      [] w = "penthouse" -> << "p", "e", "n", "t", "h", "o", "u", "s", "e" >>
      [] w = "duplex" -> << "d", "u", "p", "l", "e", "x" >>
      [] w = "under" -> << "u", "n", "d", "e", "r" >>
      [] w = "below" -> << "b", "e", "l", "o", "w" >>
      [] w = "less than" -> << "l", "e", "s", "s", " ", "t", "h", "a", "n" >>
      [] w = "cheaper than" -> << "c", "h", "e", "a", "p", "e", "r", " ", "t", "h", "a", "n" >>
      [] w = "max" -> << "m", "a", "x" >>
      [] w = "maximum" -> << "m", "a", "x", "i", "m", "u", "m" >>
      [] w = "over" -> << "o", "v", "e", "r" >>
      [] w = "above" -> << "a", "b", "o", "v", "e" >>
      [] w = "more than" -> << "m", "o", "r", "e", " ", "t", "h", "a", "n" >>
      [] w = "at least" -> << "a", "t", " ", "l", "e", "a", "s", "t" >>
      [] w = "min" -> << "m", "i", "n" >>
      [] w = "minimum" -> << "m", "i", "n", "i", "m", "u", "m" >>
      [] w = "around" -> << "a", "r", "o", "u", "n", "d" >>
      [] w = "about" -> << "a", "b", "o", "u", "t" >>
      [] w = "approximately" -> << "a", "p", "p", "r", "o", "x", "i", "m", "a", "t", "e", "l", "y" >>
      [] w = "close to" -> << "c", "l", "o", "s", "e", " ", "t", "o" >>
      [] w = "near" -> << "n", "e", "a", "r" >>
      [] w = "of" -> << "o", "f" >>
      [] w = "price" -> << "p", "r", "i", "c", "e" >>
      [] w = "thousand" -> << "t", "h", "o", "u", "s", "a", "n", "d" >>
      [] w = "million" -> << "m", "i", "l", "l", "i", "o", "n" >>
      [] w = "by" -> << "b", "y" >>
      [] w = "next to" -> << "n", "e", "x", "t", " ", "t", "o" >>
      [] w = "central" -> << "c", "e", "n", "t", "r", "a", "l" >>
      [] w = "London" -> << "L", "o", "n", "d", "o", "n" >>
      [] w = "Oxford" -> << "O", "x", "f", "o", "r", "d" >>
      [] w = "Leeds" -> << "L", "e", "e", "d", "s" >>
      [] w = "York" -> << "Y", "o", "r", "k" >>
      [] w = "Suburb" -> << "S", "u", "b", "u", "r", "b" >>
      [] w = "Downtown" -> << "D", "o", "w", "n", "t", "o", "w", "n" >>
      [] w = "Chelsea" -> << "C", "h", "e", "l", "s", "e", "a" >>
      [] OTHER -> << w >>

\* the text a sequence of symbols spells
RECURSIVE Text(_)
Text(symbols) ==
    IF symbols = << >> THEN << >>
    ELSE Chars(Head(symbols)) \o Text(Tail(symbols))

\* String.prototype.toLowerCase, one character
LowerChar(c) ==
    CASE c = "A" -> "a" [] c = "B" -> "b" [] c = "C" -> "c" [] c = "D" -> "d"
      [] c = "E" -> "e" [] c = "F" -> "f" [] c = "G" -> "g" [] c = "H" -> "h"
      [] c = "I" -> "i" [] c = "J" -> "j" [] c = "K" -> "k" [] c = "L" -> "l"
      [] c = "M" -> "m" [] c = "N" -> "n" [] c = "O" -> "o" [] c = "P" -> "p"
      [] c = "Q" -> "q" [] c = "R" -> "r" [] c = "S" -> "s" [] c = "T" -> "t"
      [] c = "U" -> "u" [] c = "V" -> "v" [] c = "W" -> "w" [] c = "X" -> "x"
      [] c = "Y" -> "y" [] c = "Z" -> "z" [] OTHER -> c

\* String.prototype.toLowerCase
LowerCase(s) == [i \in 1..Len(s) |-> LowerChar(s[i])]

\* the text starts with w at position i
StartsWith(s, i, w) ==
    i >= 1 /\ i + Len(w) - 1 <= Len(s) /\ SubSeq(s, i, i + Len(w) - 1) = w

\* String.prototype.includes
Includes(s, t) ==
    \E i \in 1..(Len(s) - Len(t) + 1) : SubSeq(s, i, i + Len(t) - 1) = t

\* parseInt of a run of digits
RECURSIVE ParseInt(_)
ParseInt(ds) ==
    IF ds = << >> THEN 0
    ELSE 10 * ParseInt(SubSeq(ds, 1, Len(ds) - 1)) + DigitVal(ds[Len(ds)])

\* String.prototype.trim
RECURSIVE TrimLeft(_)
TrimLeft(s) ==
    IF s # << >> /\ Head(s) \in Whitespace THEN TrimLeft(Tail(s)) ELSE s

RECURSIVE TrimRight(_)
TrimRight(s) ==
    IF s # << >> /\ s[Len(s)] \in Whitespace
    THEN TrimRight(SubSeq(s, 1, Len(s) - 1)) ELSE s

Trim(s) == TrimRight(TrimLeft(s))

----------------------------------------------------------------------------
(* Scores *)

\* h hundredths of a score point
Pts(h) == 6 * h

\* results.slice(0, 20)
TopN == 20

----------------------------------------------------------------------------
(* Query attribute extractor: bedroomMatch, bathroomMatch, typeMatches *)

\* end of the longest run of digits that starts at i (\d+ is greedy)
RECURSIVE DigitRunEnd(_, _)
DigitRunEnd(q, i) ==
    IF i + 1 <= Len(q) /\ q[i + 1] \in Digits THEN DigitRunEnd(q, i + 1) ELSE i

\* /(\d+)[\s-]word/ matches with its first character at i
CountMatchAt(q, i, word) ==
    /\ i \in 1..Len(q)
    /\ q[i] \in Digits
    /\ LET e == DigitRunEnd(q, i)
       IN  /\ e + 1 + Len(word) <= Len(q)
           /\ q[e + 1] \in CountSeparators
           /\ SubSeq(q, e + 2, e + 1 + Len(word)) = word

\* the same with (\d) for (\d+): one digit is captured
CountMatchOneDigit(q, word) ==
    LET starts == {i \in 1..Len(q) : CountMatchAt(q, i, word)}
    IN  IF starts = {} THEN << >>
        ELSE LET e == DigitRunEnd(q, CHOOSE i \in starts : \A j \in starts : i <= j)
             IN  << SubSeq(q, e, e) >>

\* query.match(/(\d+)[\s-]word/i): capture group 1 of the leftmost match,
\* << >> when there is no match
CountMatch(q, word) ==
    LET starts == {i \in 1..Len(q) : CountMatchAt(q, i, word)}
    IN  IF starts = {} THEN << >>
        ELSE LET i == CHOOSE i \in starts : \A j \in starts : i <= j
             IN  << SubSeq(q, i, DigitRunEnd(q, i)) >>

bedroomMatch(q) == CountMatch(q, Chars("bed"))
bathroomMatch(q) == CountMatch(q, Chars("bath"))

\* the type list of the handler, with the lower-case text of each type
TypeNames == << "House", "Flat", "Apartment", "Studio", "Cottage",
                "Bungalow", "Penthouse", "Townhouse" >>

LowerType(type) ==
    CASE type = "House" -> Chars("house")
      [] type = "Flat" -> Chars("flat")
      [] type = "Apartment" -> Chars("apartment")
      [] type = "Studio" -> Chars("studio")
      [] type = "Cottage" -> Chars("cottage")
      [] type = "Bungalow" -> Chars("bungalow")
      [] type = "Penthouse" -> Chars("penthouse")
      [] type = "Townhouse" -> Text(<< "town", "house" >>)
      [] type = "Duplex" -> Chars("duplex")

\* the types whose lower-case name the query includes, in list order
typeMatches(q) ==
    LET hit(k) == Includes(q, LowerType(TypeNames[k]))
        F[k \in 0..Len(TypeNames)] ==
            IF k = 0 THEN << >>
            ELSE IF hit(k) THEN Append(F[k - 1], TypeNames[k]) ELSE F[k - 1]
    IN  F[Len(TypeNames)]

----------------------------------------------------------------------------
(* Price phrases: underPriceMatch, overPriceMatch, aroundPriceMatch.  The  *)
(* text carries no decimal point, and "$" stands for the three currency    *)
(* signs.                                                                  *)

\* pounds held in fifths, so that the 20% band around a target is exact
Money(p) == 5 * p

CurrencySigns == {"$"}

UnderKeywords == << "under", "below", "less than", "cheaper than", "max",
                    "maximum" >>
OverKeywords == << "over", "above", "more than", "at least", "min",
                   "minimum" >>
AroundKeywords == << "around", "about", "approximately", "close to", "near" >>

\* first position after the blanks that start at n (n when there is none)
RECURSIVE SkipSpace(_, _)
SkipSpace(q, n) ==
    IF n <= Len(q) /\ q[n] \in Whitespace THEN SkipSpace(q, n + 1) ELSE n

\* (?:\s+word)? from position n: the position after the word when blanks
\* and the word stand at n, else n
AfterOptional(q, n, word) ==
    LET m == SkipSpace(q, n)
    IN  IF m > n /\ StartsWith(q, m, word) THEN m + Len(word) ELSE n

\* end of the run [\d,]* after the digit at d
RECURSIVE NumberEnd(_, _)
NumberEnd(q, d) ==
    IF d + 1 <= Len(q) /\ q[d + 1] \in Digits \cup {","}
    THEN NumberEnd(q, d + 1) ELSE d

NoMatch == [found |-> FALSE, start |-> 0, first |-> 0, last |-> 0, end |-> 0]

\* (?:k|thousand|m|million)? at position t: the last position of the
\* suffix, t - 1 when there is none.  Of the suffixes the first alternative
\* that fits is taken, so "million" is matched up to its m.
SuffixEnd(q, t) ==
    IF StartsWith(q, t, << "k" >>) THEN t
    ELSE IF StartsWith(q, t, Chars("thousand"))
         THEN t + Len(Chars("thousand")) - 1
    ELSE IF StartsWith(q, t, << "m" >>) THEN t
    ELSE t - 1

\* (\d[\d,]*)\s*(?:k|thousand|m|million)? with the first digit at d: the
\* number stands at first..last and the match ends at end
NumberFrom(q, d) ==
    IF d <= Len(q) /\ q[d] \in Digits
    THEN [found |-> TRUE, start |-> 0, first |-> d, last |-> NumberEnd(q, d),
          end |-> SuffixEnd(q, SkipSpace(q, NumberEnd(q, d) + 1))]
    ELSE NoMatch

\* \s+(?:£|\$|€)? from position n, where the blanks end before m, and
\* then the number and its suffix
SignedNumberFrom(q, n, m) ==
    IF m > n
    THEN NumberFrom(q, IF m <= Len(q) /\ q[m] \in CurrencySigns THEN m + 1
                       ELSE m)
    ELSE NoMatch

\* \s+(?:£|\$|€)?(\d[\d,]*)\s*(?:k|thousand|m|million)? from position n
NumberAndSuffix(q, n) == SignedNumberFrom(q, n, SkipSpace(q, n))

\* (?:\s+of)? after "price", which ended before b when b > a
AfterPrice(q, a, b) ==
    IF b > a THEN AfterOptional(q, b, Chars("of")) ELSE b

\* (?:\s+price(?:\s+of)?)? from position a
AfterPriceOf(q, a) == AfterPrice(q, a, AfterOptional(q, a, Chars("price")))

\* the match r with its first position
StartedAt(r, i) == IF r.found THEN [r EXCEPT !.start = i] ELSE NoMatch

\* one keyword of a price pattern matched at position i, with the optional
\* words of the pattern: "of" after an under or over keyword, "a" and
\* "price" and "of" after an around keyword
PhraseWith(q, i, kw, around) ==
    IF ~StartsWith(q, i, kw) THEN NoMatch
    ELSE StartedAt(
             NumberAndSuffix(q,
                 IF around
                 THEN AfterPriceOf(q, AfterOptional(q, i + Len(kw), << "a" >>))
                 ELSE AfterOptional(q, i + Len(kw), Chars("of"))),
             i)

\* the match at position i: that of the first keyword of the alternation
\* that matches there
MatchAt(q, i, keywords, around) ==
    PhraseWith(q, i,
               Chars(keywords[
                   CHOOSE k \in 1..Len(keywords) :
                       /\ PhraseWith(q, i, Chars(keywords[k]), around).found
                       /\ \A m \in 1..(k - 1) :
                             ~PhraseWith(q, i, Chars(keywords[m]), around).found]),
               around)

\* the match at the least of the positions where the pattern matches
LeftmostMatch(q, starts, keywords, around) ==
    IF starts = {} THEN NoMatch
    ELSE MatchAt(q, CHOOSE i \in starts : \A j \in starts : i <= j,
                 keywords, around)

\* query.match of a price pattern: the leftmost match
PriceMatch(q, keywords, around) ==
    LeftmostMatch(q,
                  {i \in 1..Len(q) :
                      \E k \in 1..Len(keywords) :
                          PhraseWith(q, i, Chars(keywords[k]), around).found},
                  keywords, around)

underPriceMatch(q) == PriceMatch(q, UnderKeywords, FALSE)
overPriceMatch(q) == PriceMatch(q, OverKeywords, FALSE)
aroundPriceMatch(q) == PriceMatch(q, AroundKeywords, TRUE)

\* the price of a match with an m read as a thousand
PhrasePriceThousands(q, r) ==
    LET price == ParseInt(SelectSeq(SubSeq(q, r.first, r.last),
                                    LAMBDA c : c # ","))
        match0 == SubSeq(q, r.start, r.end)
    IN  IF Includes(match0, << "k" >>) \/ Includes(match0, Chars("thousand"))
        THEN price * 1000
        ELSE IF Includes(match0, << "m" >>) \/ Includes(match0, Chars("million"))
        THEN price * 1000
        ELSE price

\* the price of a match: parseFloat of group 1 without its commas, times
\* 1000 when the whole match (keyword included) holds a k or "thousand",
\* else times 1000000 when it holds an m or "million"
PhrasePrice(q, r) ==
    LET price == ParseInt(SelectSeq(SubSeq(q, r.first, r.last),
                                    LAMBDA c : c # ","))
        match0 == SubSeq(q, r.start, r.end)
    IN  IF Includes(match0, << "k" >>) \/ Includes(match0, Chars("thousand"))
        THEN price * 1000
        ELSE IF Includes(match0, << "m" >>) \/ Includes(match0, Chars("million"))
        THEN price * 1000000
        ELSE price

\* priceRanges: every field is << >> when the key is absent
NoPriceRanges == [min |-> << >>, max |-> << >>, target |-> << >>]

\* priceRanges.max = price of an under match
WithMax(ranges, q, u) ==
    IF u.found THEN [ranges EXCEPT !.max = << Money(PhrasePrice(q, u)) >>]
    ELSE ranges

\* priceRanges.min = price of an over match
WithMin(ranges, q, o) ==
    IF o.found THEN [ranges EXCEPT !.min = << Money(PhrasePrice(q, o)) >>]
    ELSE ranges

\* the target and the band of 20% below and above it
Band(price) ==
    [target |-> << price >>, min |-> << price - price \div 5 >>,
     max |-> << price + price \div 5 >>]

\* priceRanges.target, .min and .max of an around match
WithBand(ranges, q, a) ==
    IF ~a.found THEN ranges
    ELSE [ranges EXCEPT !.target = Band(Money(PhrasePrice(q, a))).target,
                        !.min = Band(Money(PhrasePrice(q, a))).min,
                        !.max = Band(Money(PhrasePrice(q, a))).max]

\* the three matches processed with the around band written first
priceRangesAroundFirst(q) ==
    WithMin(WithMax(WithBand(NoPriceRanges, q, aroundPriceMatch(q)),
                    q, underPriceMatch(q)),
            q, overPriceMatch(q))

\* the three matches processed in the order under, over, around: the band
\* of an around match is written last, over the min and max set before
priceRanges(q) ==
    WithBand(WithMin(WithMax(NoPriceRanges, q, underPriceMatch(q)),
                     q, overPriceMatch(q)),
             q, aroundPriceMatch(q))

----------------------------------------------------------------------------
(* Geocoding: locationCoordinates, getCoordinates, calculateDistance,      *)
(* calculateProximityBoost, parseLocationQuery.  Six places of the table   *)
(* are kept; coordinates are in ten-thousandths of a degree and distances  *)
(* in metres.                                                              *)

\* the keys of locationCoordinates, in the order of the table
PlaceNames == << "London", "Leeds", "Oxford", "York", "Suburb", "Downtown" >>

locationCoordinates(name) ==
    CASE name = "London" -> [lat |-> 515074, lng |-> 0 - 1278]
      [] name = "Leeds" -> [lat |-> 538008, lng |-> 0 - 15491]
      [] name = "Oxford" -> [lat |-> 517520, lng |-> 0 - 12577]
      [] name = "York" -> [lat |-> 539600, lng |-> 0 - 10873]
      [] name = "Suburb" -> [lat |-> 515249, lng |-> 0 - 2332]
      [] name = "Downtown" -> [lat |-> 515113, lng |-> 0 - 1162]

\* getCoordinates: the entry of the exact key, else of the first key that
\* the name includes or that includes the name, else London; the
\* comparisons keep the letter case
getCoordinates(location) ==
    LET exact == {k \in 1..Len(PlaceNames) : Chars(PlaceNames[k]) = location}
        partial == {k \in 1..Len(PlaceNames) :
                       \/ Includes(location, Chars(PlaceNames[k]))
                       \/ Includes(Chars(PlaceNames[k]), location)}
    IN  IF exact # {}
        THEN locationCoordinates(PlaceNames[CHOOSE k \in exact : TRUE])
        ELSE IF partial # {}
        THEN locationCoordinates(
                 PlaceNames[CHOOSE k \in partial : \A m \in partial : k <= m])
        ELSE locationCoordinates("London")

\* the key of the table that holds the coordinates
PlaceOf(coords) ==
    PlaceNames[CHOOSE k \in 1..Len(PlaceNames) :
                   locationCoordinates(PlaceNames[k]) = coords]

\* the Haversine distance of two different entries of the table, rounded
\* to the metre
Metres(pair) ==
    CASE pair = {"London", "Leeds"} -> 272426
      [] pair = {"London", "Oxford"} -> 82595
      [] pair = {"London", "York"} -> 280257
      [] pair = {"London", "Suburb"} -> 7548
      [] pair = {"London", "Downtown"} -> 912
      [] pair = {"Leeds", "Oxford"} -> 228657
      [] pair = {"Leeds", "York"} -> 35066
      [] pair = {"Leeds", "Suburb"} -> 268165
      [] pair = {"Leeds", "Downtown"} -> 272295
      [] pair = {"Oxford", "York"} -> 245785
      [] pair = {"Oxford", "Suburb"} -> 75074
      [] pair = {"Oxford", "Downtown"} -> 83208
      [] pair = {"York", "Suburb"} -> 276802
      [] pair = {"York", "Downtown"} -> 280016
      [] pair = {"Suburb", "Downtown"} -> 8236

\* calculateDistance: the Haversine distance of the coordinates of two
\* entries of the table, in metres
calculateDistance(coords1, coords2) ==
    IF coords1 = coords2 THEN 0
    ELSE Metres({PlaceOf(coords1), PlaceOf(coords2)})

\* the tiers with the nearest and the farthest swapped
ProximityBoostReversed(distance) ==
    IF distance < 1000 THEN 0
    ELSE IF distance < 5000 THEN Pts(10)
    ELSE IF distance < 20000 THEN Pts(20)
    ELSE IF distance < 50000 THEN Pts(30)
    ELSE Pts(40)

\* calculateProximityBoost: 0.4 below 1 km, 0.3 below 5 km, 0.2 below
\* 20 km, 0.1 below 50 km, else 0
calculateProximityBoost(distance) ==
    IF distance < 1000 THEN Pts(40)
    ELSE IF distance < 5000 THEN Pts(30)
    ELSE IF distance < 20000 THEN Pts(20)
    ELSE IF distance < 50000 THEN Pts(10)
    ELSE 0

LocationKeywords == << "near", "close to", "in", "by", "around", "next to" >>

\* [A-Za-z]
IsLetter(c) == LowerChar(c) \in Letters

NoPlace == [found |-> FALSE, name |-> << >>]

\* a place name stands at p, whatever the letter case: its last position,
\* 0 when none does
PlaceEnd(q, p) ==
    LET fits == {k \in 1..Len(PlaceNames) :
                    StartsWith(LowerCase(q), p, LowerCase(Chars(PlaceNames[k])))}
    IN  IF fits = {} THEN 0
        ELSE p + Len(Chars(PlaceNames[CHOOSE k \in fits : TRUE])) - 1

\* keyword \s+ ([A-Za-z\s]+ place) with the keyword at i: group 1 holds at
\* least one letter or blank before the place name and reaches to the last
\* place name that letters and blanks lead to; the name is group 1 trimmed
LocationWith(q, i, kw) ==
    IF ~StartsWith(LowerCase(q), i, kw) THEN NoPlace
    ELSE LET e == i + Len(kw)
             w == SkipSpace(q, e)
             ok(p) == /\ PlaceEnd(q, p) > 0
                      /\ \A x \in w..(p - 1) :
                            IsLetter(q[x]) \/ q[x] \in Whitespace
             far == {p \in (w + 1)..Len(q) : ok(p)}
         IN  IF w = e THEN NoPlace
             ELSE IF far # {}
             THEN [found |-> TRUE,
                   name |-> SubSeq(q, w, PlaceEnd(q,
                               CHOOSE p \in far : \A x \in far : x <= p))]
             ELSE IF w - e >= 2 /\ ok(w)
             THEN [found |-> TRUE, name |-> SubSeq(q, w, PlaceEnd(q, w))]
             ELSE NoPlace

\* parseLocationQuery: the name of the leftmost match, << >> for null
parseLocationQuery(q) ==
    LET hit(i, k) == LocationWith(q, i, Chars(LocationKeywords[k])).found
        starts == {i \in 1..Len(q) :
                      \E k \in 1..Len(LocationKeywords) : hit(i, k)}
    IN  IF starts = {} THEN << >>
        ELSE LET i == CHOOSE i \in starts : \A j \in starts : i <= j
                 k == CHOOSE k \in 1..Len(LocationKeywords) :
                          hit(i, k) /\ \A m \in 1..(k - 1) : ~hit(i, m)
             IN  << Trim(LocationWith(q, i, Chars(LocationKeywords[k])).name) >>

----------------------------------------------------------------------------
(* specificAttributes *)

\* specificAttributes: every field is << >> when the key is absent
NoAttributes ==
    [targetLocation |-> << >>, bedrooms |-> << >>, bathrooms |-> << >>,
     priceRanges |-> << >>, type |-> << >>]

\* Object.keys(priceRanges).length > 0: the ranges are saved
IfAnyKey(ranges) == IF ranges = NoPriceRanges THEN << >> ELSE << ranges >>

\* the regular expressions and the type test ignore the letter case; the
\* place name keeps the case of the query
ExtractAttributes(query) ==
    LET q == LowerCase(query)
        bm == bedroomMatch(q)
        am == bathroomMatch(q)
        locationQuery == parseLocationQuery(query)
    IN  [targetLocation |->
             IF locationQuery = << >> THEN << >>
             ELSE << [name |-> locationQuery[1],
                      coordinates |-> getCoordinates(locationQuery[1])] >>,
         bedrooms  |-> IF bm = << >> THEN << >> ELSE << ParseInt(bm[1]) >>,
         bathrooms |-> IF am = << >> THEN << >> ELSE << ParseInt(am[1]) >>,
         priceRanges |-> IfAnyKey(priceRanges(q)),
         type      |-> typeMatches(q)]

\* Object.keys(specificAttributes).length > 0
HasAttributes(a) ==
    \/ a.targetLocation # << >>
    \/ a.bedrooms # << >>
    \/ a.bathrooms # << >>
    \/ a.priceRanges # << >>
    \/ a.type # << >>

----------------------------------------------------------------------------
(* The listing table *)

DigitOf(n) ==
    CASE n = 0 -> "0" [] n = 1 -> "1" [] n = 2 -> "2" [] n = 3 -> "3"
      [] n = 4 -> "4" [] n = 5 -> "5" [] n = 6 -> "6" [] n = 7 -> "7"
      [] n = 8 -> "8" [] OTHER -> "9"

\* a listing as loadMockPropertyData and the CSV load build it; the text
\* fields are held in lower case, as the search handler lowers them where
\* it reads them.
\* The title is `${style} ${bedrooms}-bedroom ${type} in ${location}`, the
\* description is cut to its first clauses, and the coordinates are those
\* getCoordinates gives for the location as it is written.
Listing(id, style, bedrooms, bathrooms, type, price, view, location) ==
    [id          |-> id,
     title       |-> Text(<< style, " ", DigitOf(bedrooms), "-", "bed", "room", " " >>)
                     \o LowerType(type)
                     \o LowerCase(Text(<< " ", "in", " ", location >>)),
     description |-> Text(<< "a", " ", style, " " >>) \o LowerType(type)
                     \o LowerCase(Text(<< " ", "located", " ", "in", " ",
                                          location, " ", "with", " ", "a", " " >>))
                     \o Text(view),
     location    |-> LowerCase(Chars(location)),
     coordinates |-> getCoordinates(Chars(location)),
     type        |-> type,
     style       |-> Chars(style),
     bedrooms    |-> bedrooms,
     bathrooms   |-> bathrooms,
     price       |-> price,
     view        |-> Text(view),
     furnishing  |-> Chars("furnished")]

BigTableSize == 22

StyleOf(i) == IF i % 2 = 0 THEN "modern" ELSE "victorian"
TypeOf(i) == CASE i % 3 = 0 -> "Flat" [] i % 3 = 1 -> "House" [] OTHER -> "Studio"
ViewOf(i) == IF i % 4 = 0 THEN << "river", " ", "view" >> ELSE << "no", " ", "view" >>

GeneratedListing(i) ==
    Listing(i, StyleOf(i), 1 + (i % 3), 1 + (i % 2), TypeOf(i),
            300000 + 50000 * i, ViewOf(i), "Chelsea")

\* listings of a CSV file that differ in their location only
CityOf(i) == CASE i = 1 -> "London" [] i = 2 -> "Suburb" [] OTHER -> "Oxford"

CityListing(i) ==
    Listing(i, "modern", 2, 1, "Flat", 400000, << "no", " ", "view" >>, CityOf(i))

\* the table before the load, a table of three generated listings, a
\* table of three listings in three places, and a table larger than the
\* top slice
EmptyTable == << >>
SmallTable == [i \in 1..3 |-> GeneratedListing(i)]
CityTable == [i \in 1..3 |-> CityListing(i)]
BigTable == [i \in 1..BigTableSize |-> GeneratedListing(i)]
Tables == {EmptyTable, SmallTable, CityTable, BigTable}

\* MemStorage.getPropertiesByIds: the listings of the ids that are in the
\* table, in the order of the ids
RECURSIVE getPropertiesByIds(_, _)
getPropertiesByIds(table, ids) ==
    IF ids = << >> THEN << >>
    ELSE LET found == {k \in 1..Len(table) : table[k].id = Head(ids)}
             rest == getPropertiesByIds(table, Tail(ids))
         IN  IF found = {} THEN rest
             ELSE << table[CHOOSE k \in found : TRUE] >> \o rest

\* MemStorage.getAllProperties
getAllProperties(table) == table

----------------------------------------------------------------------------
(* Sequences of results *)

\* x put into a list sorted by descending score, before the first entry
\* whose score is not greater (x came first in the unsorted list: the
\* sort of Array.prototype.sort is stable)
RECURSIVE InsertByScore(_, _)
InsertByScore(x, s) ==
    IF s = << >> THEN << x >>
    ELSE IF Head(s).score > x.score
         THEN << Head(s) >> \o InsertByScore(x, Tail(s))
         ELSE << x >> \o s

\* no sort at all
SortKeepsOrder(s) == s

\* results.sort((a, b) => b.score - a.score)
RECURSIVE SortByScore(_)
SortByScore(s) ==
    IF s = << >> THEN << >>
    ELSE InsertByScore(Head(s), SortByScore(Tail(s)))

Max(a, b) == IF a >= b THEN a ELSE b
Min(a, b) == IF a <= b THEN a ELSE b

MaxScore(s) == CHOOSE m \in {s[i].score : i \in 1..Len(s)} :
                   \A i \in 1..Len(s) : s[i].score <= m
MinScore(s) == CHOOSE m \in {s[i].score : i \in 1..Len(s)} :
                   \A i \in 1..Len(s) : s[i].score >= m

----------------------------------------------------------------------------
(* Fallback text matcher *)

\* String.prototype.split(/\s+/): a leading or trailing blank run leaves
\* an empty first or last term
RECURSIVE Split(_)
Split(s) ==
    LET ws == {i \in 1..Len(s) : s[i] \in Whitespace}
    IN  IF ws = {} THEN << s >>
        ELSE LET i == CHOOSE k \in ws : \A m \in ws : k <= m
                 RECURSIVE RunEnd(_)
                 RunEnd(k) == IF k + 1 <= Len(s) /\ s[k + 1] \in Whitespace
                              THEN RunEnd(k + 1) ELSE k
             IN  << SubSeq(s, 1, i - 1) >> \o Split(SubSeq(s, RunEnd(i) + 1, Len(s)))

\* depth of open groups after the term, -1 once a ")" closes nothing
RECURSIVE ParenDepth(_, _)
ParenDepth(term, depth) ==
    IF term = << >> THEN depth
    ELSE IF Head(term) = "(" THEN ParenDepth(Tail(term), depth + 1)
    ELSE IF Head(term) = ")"
         THEN IF depth = 0 THEN 0 - 1 ELSE ParenDepth(Tail(term), depth - 1)
         ELSE ParenDepth(Tail(term), depth)

\* new RegExp(`\\b${term}\\b`, 'i') throws a SyntaxError: the term is put
\* into the pattern unescaped, and its parentheses do not pair up
RegExpThrows(term) == ParenDepth(term, 0) # 0

\* the text a pattern with paired parentheses matches
StripGroups(term) == SelectSeq(term, LAMBDA t : t \notin {"(", ")"})

IsWordAt(f, k) == k \in 1..Len(f) /\ f[k] \in WordChars

\* \b between f[p - 1] and f[p]
WordBoundary(f, p) == IsWordAt(f, p - 1) # IsWordAt(f, p)

\* termRegex.test(field)
termRegexTest(term, f) ==
    LET t == StripGroups(term)
        n == Len(t)
    IN  \E i \in 1..(Len(f) + 1 - n) :
            /\ SubSeq(f, i, i + n - 1) = t
            /\ WordBoundary(f, i)
            /\ WordBoundary(f, i + n)

\* the seven fields the matcher reads, lower case
MatchedFields(p) ==
    << p.title, p.description, p.location, LowerType(p.type), p.style,
       p.view, p.furnishing >>

AnyFieldIncludes(p, t) ==
    \E k \in 1..7 : Includes(MatchedFields(p)[k], t)

\* the terms of the query some field includes (termMatches)
TermMatchCount(p, terms) ==
    Cardinality({k \in 1..Len(terms) : AnyFieldIncludes(p, terms[k])})

\* the filter callback's return value: keep the listing
FallbackKeeps(p, q) ==
    TermMatchCount(p, Split(q)) > 0 \/ AnyFieldIncludes(p, q)

RECURSIVE SumSeq(_)
SumSeq(s) == IF s = << >> THEN 0 ELSE Head(s) + SumSeq(Tail(s))

\* the score the filter callback leaves on the result: 0.5, the field
\* bonuses, the term bonus and the whole-word bonuses
FallbackScore(p, q) ==
    LET terms == Split(q)
        hit(k) == Includes(MatchedFields(p)[k], q)
        matched == TermMatchCount(p, terms)
        word(term) ==
            IF Len(term) <= 3 THEN 0
            ELSE (IF termRegexTest(term, p.title) THEN Pts(15) ELSE 0)
               + (IF termRegexTest(term, LowerType(p.type)) THEN Pts(15) ELSE 0)
               + (IF termRegexTest(term, p.style) THEN Pts(10) ELSE 0)
               + (IF termRegexTest(term, p.view) THEN Pts(10) ELSE 0)
    IN  Pts(50)
        + (IF hit(1) THEN Pts(25) ELSE 0)
        + (IF hit(4) THEN Pts(20) ELSE 0)
        + (IF hit(5) THEN Pts(15) ELSE 0)
        + (IF hit(6) THEN Pts(15) ELSE 0)
        + (IF hit(3) THEN Pts(10) ELSE 0)
        + (IF hit(7) THEN Pts(10) ELSE 0)
        + (IF hit(2) THEN Pts(5) ELSE 0)
        + (IF matched > 0 THEN (Pts(10) * matched) \div Len(terms) ELSE 0)
        + SumSeq([k \in 1..Len(terms) |-> word(terms[k])])

\* a result of the handler: a copy of the listing (held by its id), the
\* score, the exactMatch flag (FALSE while the key is absent) and the
\* distance in tenths of a km (<< >> while the key is absent)
Result(id, score) ==
    [id |-> id, score |-> score, exactMatch |-> FALSE, distance |-> << >>]

\* the fallback raises while it filters: some listing is visited and some
\* term longer than three characters makes RegExp throw
FallbackThrows(table, q) ==
    /\ Trim(q) # << >>
    /\ table # << >>
    /\ \E k \in 1..Len(Split(q)) :
          Len(Split(q)[k]) > 3 /\ RegExpThrows(Split(q)[k])

\* results of the fallback mode: every listing at 0.5; with a query that
\* is not blank, the listings the filter keeps for the lowered query,
\* sorted by score
FallbackResults(table, query) ==
    IF Trim(query) = << >>
    THEN [i \in 1..Len(table) |-> Result(table[i].id, Pts(50))]
    ELSE LET q == LowerCase(query)
             kept == SelectSeq(table, LAMBDA p : FallbackKeeps(p, q))
         IN  SortByScore([i \in 1..Len(kept) |->
                             Result(kept[i].id, FallbackScore(kept[i], q))])

\* results of the vector mode: each match joined to its listing, matches
\* without a listing dropped
VectorResults(table, matches) ==
    LET known == SelectSeq(matches,
                     LAMBDA m : getPropertiesByIds(table, << m.id >>) # << >>)
    IN  [i \in 1..Len(known) |-> Result(known[i].id, known[i].score)]

ListingOf(table, id) == getPropertiesByIds(table, << id >>)[1]

----------------------------------------------------------------------------
(* Attribute boosting, ranking and normalisation *)

\* the value is there and is not 0 (ranges.min && ...)
Truthy(v) == v # << >> /\ v[1] # 0

\* the priceRanges branch for a listing of price p: the boost and whether
\* the listing stays an exact match
PriceBoost(p, ranges) ==
    LET price == Money(p)
        belowMin == Truthy(ranges.min) /\ price < ranges.min[1]
        aboveMax == Truthy(ranges.max) /\ price > ranges.max[1]
        target == ranges.target[1]
        diff == IF price >= target THEN price - target ELSE target - price
        offTarget == Truthy(ranges.target) /\ 5 * diff > target
    IN  [boost |-> (IF Truthy(ranges.min) /\ ~belowMin THEN Pts(20) ELSE 0)
                 + (IF Truthy(ranges.max) /\ ~aboveMax THEN Pts(20) ELSE 0)
                 + (IF ~Truthy(ranges.target) THEN 0
                    ELSE IF 20 * diff <= target THEN Pts(35)
                    ELSE IF 10 * diff <= target THEN Pts(25)
                    ELSE IF 5 * diff <= target THEN Pts(15)
                    ELSE 0),
         exact |-> ~belowMin /\ ~aboveMax /\ ~offTarget]

\* the targetLocation branch for a listing at a distance from the target:
\* the boost and whether the listing stays an exact match.  Every listing
\* of the table holds coordinates, so that the branch for a listing
\* without them is never taken.
LocationBoost(distance) ==
    [boost |-> calculateProximityBoost(distance)
               + (IF distance <= 2000 THEN Pts(20) ELSE 0),
     exact |-> distance <= 2000]

\* an attribute the query does not name
NoBoost == [boost |-> 0, exact |-> TRUE]

\* the branch of an attribute that matches or does not
Matched(ok, boost) == [boost |-> IF ok THEN boost ELSE 0, exact |-> ok]

\* matchBoost and isExactMatch after the loop over the attributes,
\* without the 0.5 of an exact match
SumBoostsNoBonus(checks) ==
    [boost |-> SumSeq([k \in 1..Len(checks) |-> checks[k].boost]),
     exactMatch |-> \A k \in 1..Len(checks) : checks[k].exact]

\* matchBoost and isExactMatch after the loop over the attributes, with
\* the 0.5 of an exact match
SumBoosts(checks) ==
    [boost |-> SumSeq([k \in 1..Len(checks) |-> checks[k].boost])
               + (IF \A k \in 1..Len(checks) : checks[k].exact THEN Pts(50)
                  ELSE 0),
     exactMatch |-> \A k \in 1..Len(checks) : checks[k].exact]

\* Math.round(distance * 10) / 10 of a distance in metres, in tenths of a
\* km
RoundedDistance(distance) == (distance + 50) \div 100

\* the branches of the loop over the attributes for one candidate
AttributeChecks(p, a) ==
    <<  IF a.targetLocation = << >> THEN NoBoost
        ELSE LocationBoost(calculateDistance(a.targetLocation[1].coordinates,
                                             p.coordinates)),
        IF a.bedrooms = << >> THEN NoBoost
        ELSE Matched(p.bedrooms = a.bedrooms[1], Pts(30)),
        IF a.bathrooms = << >> THEN NoBoost
        ELSE Matched(p.bathrooms = a.bathrooms[1], Pts(30)),
        IF a.priceRanges = << >> THEN NoBoost
        ELSE PriceBoost(p.price, a.priceRanges[1]),
        IF a.type = << >> THEN NoBoost
        ELSE Matched(\E k \in 1..Len(a.type) : p.type = a.type[k], Pts(20)) >>

\* the boost and the exact-match flag of one candidate
AttributeBoost(p, a) == SumBoosts(AttributeChecks(p, a))

\* result.distance of one candidate, << >> while the key is absent
DistanceTo(p, a) ==
    IF a.targetLocation = << >> THEN << >>
    ELSE << RoundedDistance(calculateDistance(a.targetLocation[1].coordinates,
                                              p.coordinates)) >>

\* { ...result, score: result.score + matchBoost, exactMatch }
Boosted(r, b, distance) ==
    [id |-> r.id, score |-> r.score + b.boost, exactMatch |-> b.exactMatch,
     distance |-> distance]

\* the exact matches first
ExactFirst(boosted) ==
    SelectSeq(boosted, LAMBDA r : r.exactMatch)
    \o SelectSeq(boosted, LAMBDA r : ~r.exactMatch)

\* results.map(...) of the boosting pass, then the exact matches first
BoostAndPrioritise(table, rs, a) ==
    ExactFirst([i \in 1..Len(rs) |->
                   Boosted(rs[i],
                           AttributeBoost(ListingOf(table, rs[i].id), a),
                           DistanceTo(ListingOf(table, rs[i].id), a))])

\* Math.round(n / d * 100 * 100) for n >= 0 and d > 0, in hundredths of a
\* point of the 0-100 scale
RoundRatio(n, d) == (2 * n * 10000 + d) \div (2 * d)

\* every score divided by the largest one
NormalizeByMax(top) ==
    IF top = << >> THEN top
    ELSE LET maxScore == MaxScore(top)
         IN  [i \in 1..Len(top) |->
                 [top[i] EXCEPT !.score =
                     IF maxScore > 0
                     THEN Min(10000, Max(0, RoundRatio(top[i].score, maxScore)))
                     ELSE 10000]]

\* the normalisation of the top slice to 0..100, two decimals
Normalize(top) ==
    IF top = << >> THEN top
    ELSE LET maxScore == MaxScore(top)
             minScore == MinScore(top)
             scoreRange == maxScore - minScore
         IN  [i \in 1..Len(top) |->
                 [top[i] EXCEPT !.score =
                     IF scoreRange > 0
                     THEN Min(10000, Max(0,
                              RoundRatio(top[i].score - minScore, scoreRange)))
                     ELSE 10000]]

\* results.slice(0, 20)
TopSlice(rs) == SubSeq(rs, 1, Min(TopN, Len(rs)))

\* the handler from the choice between vector and fallback results to the
\* sorted list: the list before the final slice
RankedResults(table, q, a, matches) ==
    LET joined == IF Len(matches) > 0 THEN VectorResults(table, matches)
                  ELSE FallbackResults(table, q)
        boosted == IF HasAttributes(a) THEN BoostAndPrioritise(table, joined, a)
                   ELSE joined
    IN  SortByScore(boosted)

----------------------------------------------------------------------------
(* Inputs of the model *)

\* req.body: no query key, a query that is no string, or a query string
NoQueryBody == [kind |-> "missing", query |-> << >>]
NonStringBody == [kind |-> "nonstring", query |-> << >>]
StringBody(q) == [kind |-> "string", query |-> q]

\* the query strings of the requests
Queries ==
    { Text(symbols) : symbols \in
        { << >>,
          << " " >>,
          << "2", " ", "bed" >>,
          << "flat" >>,
          << "modern", " ", "garden" >>,
          << "zzz" >>,
          << "modern", " ", "house", " ", "(", "3", " ", "bed", ")" >>,
          << "2", "-", "bed", " ", "studio", " ", "1", " ", "bath" >>,
          << " ", "zzz" >>,
          << "flat", " ", "in", " ", "central", " ", "London" >>,
          << "flat", " ", "around", " ", "4", "0", "0", "k" >> } }

Bodies == {NoQueryBody, NonStringBody} \cup {StringBody(q) : q \in Queries}

\* similarity scores of the vector search
RawScores == {Pts(10), Pts(50), Pts(95)}

\* an id of the index that is in no table
UnknownId == BigTableSize + 1

MatchIds == {1, 2, 3, UnknownId}

RECURSIVE SeqsUpTo(_, _)
SeqsUpTo(S, n) ==
    IF n = 0 THEN {<< >>}
    ELSE LET shorter == SeqsUpTo(S, n - 1)
         IN  shorter \cup {Append(s, x) : s \in shorter, x \in S}

\* what index.query can answer: every list of up to MaxMatches matches
\* with distinct ids, and lists longer than the top slice whose scores
\* fall, rise or are all equal
ShortMatchLists ==
    {m \in SeqsUpTo([id : MatchIds, score : RawScores], MaxMatches) :
        \A i, j \in 1..Len(m) : i # j => m[i].id # m[j].id}

LongMatchLists ==
    { [i \in 1..BigTableSize |-> [id |-> i, score |-> Pts(95) - i]],
      [i \in 1..BigTableSize |-> [id |-> i, score |-> Pts(50) + i]],
      [i \in 1..BigTableSize |-> [id |-> i, score |-> Pts(50)]] }

MatchLists == ShortMatchLists \cup LongMatchLists

\* error.status of a failed provider call: rate limit, rejected key,
\* server error
ErrorStatuses == {429, 401, 500}

NoError == [source |-> "none", status |-> 0]

----------------------------------------------------------------------------
(* GET /property/filters: MemStorage.getFilterOptions *)

\* Array.from(new Set(values)): the distinct values, each at the place of
\* its first occurrence
RECURSIVE Distinct(_)
Distinct(s) ==
    IF s = << >> THEN << >>
    ELSE LET d == Distinct(SubSeq(s, 1, Len(s) - 1))
         IN  IF \E i \in 1..Len(d) : d[i] = s[Len(s)] THEN d
             ELSE Append(d, s[Len(s)])

\* the number Infinity: greater than every number of the model
Infinity == 2147483647

\* Math.min(...values) and Math.max(...values); without a value they are
\* Infinity and -Infinity
MathMin(s) ==
    IF s = << >> THEN Infinity
    ELSE CHOOSE m \in {s[i] : i \in 1..Len(s)} : \A i \in 1..Len(s) : m <= s[i]

MathMax(s) ==
    IF s = << >> THEN 0 - Infinity
    ELSE CHOOSE m \in {s[i] : i \in 1..Len(s)} : \A i \in 1..Len(s) : m >= s[i]

\* the ranges taken from the first and the last listing
getFilterOptionsOfEnds(table) ==
    LET col(f) == [i \in 1..Len(table) |-> table[i][f]]
        ends(f) == IF table = << >> THEN << >>
                   ELSE << table[1][f], table[Len(table)][f] >>
    IN  [types       |-> Distinct(col("type")),
         styles      |-> Distinct(col("style")),
         locations   |-> Distinct(col("location")),
         bedrooms    |-> [min |-> MathMin(ends("bedrooms")),
                          max |-> MathMax(ends("bedrooms"))],
         bathrooms   |-> [min |-> MathMin(ends("bathrooms")),
                          max |-> MathMax(ends("bathrooms"))],
         price       |-> [min |-> MathMin(ends("price")),
                          max |-> MathMax(ends("price"))],
         views       |-> Distinct(col("view")),
         furnishings |-> Distinct(col("furnishing"))]

\* MemStorage.getFilterOptions
getFilterOptions(table) ==
    LET col(f) == [i \in 1..Len(table) |-> table[i][f]]
    IN  [types       |-> Distinct(col("type")),
         styles      |-> Distinct(col("style")),
         locations   |-> Distinct(col("location")),
         bedrooms    |-> [min |-> MathMin(col("bedrooms")),
                          max |-> MathMax(col("bedrooms"))],
         bathrooms   |-> [min |-> MathMin(col("bathrooms")),
                          max |-> MathMax(col("bathrooms"))],
         price       |-> [min |-> MathMin(col("price")),
                          max |-> MathMax(col("price"))],
         views       |-> Distinct(col("view")),
         furnishings |-> Distinct(col("furnishing"))]

\* no filters request has been answered
NoFilters == [status |-> 0, options |-> << >>]

----------------------------------------------------------------------------
(* The components at rest: no load under way, the client not started *)

\* the invocations of loadPropertyDataFromCSV: the timer of registerRoutes
\* and initializeData of two cold-start requests
Loaders == {"timer", "request1", "request2"}

\* every invocation has returned, and the timer's one wrote the table
LoadAtRest ==
    /\ loadPc = [l \in Loaders |-> "returned"]
    /\ isDataInitialized = TRUE
    /\ writers = IF properties = << >> THEN {} ELSE {"timer"}
    /\ servedFrom = << >>
    /\ csvFile = << >>

ClientAtRest ==
    /\ filterOptions = << >>
    /\ filters = << >>
    /\ clientResults = << >>
    /\ filteredResults = << >>

HandlerAtRest ==
    /\ pc = "idle"
    /\ body = [kind |-> "missing", query |-> << >>]
    /\ specificAttributes = NoAttributes
    /\ attempt = 0
    /\ delays = << >>
    /\ embedCalls = 0
    /\ searchCalls = 0
    /\ queryEmbedding = "undefined"
    /\ providerError = [source |-> "none", status |-> 0]
    /\ searchResults = << >>
    /\ fallbackUsed = FALSE
    /\ results = << >>
    /\ topResults = << >>
    /\ responses = << >>
    /\ filtersResponse = NoFilters

----------------------------------------------------------------------------
(* The search handler *)

\* getEmbedding(text, maxRetries = 3)
maxRetries == 3

\* the credential checks of the handler without the check of the
\* vector-search key
MissingKeyOpenaiOnly(e) ==
    IF ~e.openai THEN "OPENAI_API_KEY" ELSE "none"

\* the credential checks of the handler, in the other order
MissingKeyPineconeFirst(e) ==
    IF ~e.pinecone THEN "PINECONE_API_KEY"
    ELSE IF ~e.openai THEN "OPENAI_API_KEY"
    ELSE "none"

\* the credential checks of the handler
MissingKey(e) ==
    IF ~e.openai THEN "OPENAI_API_KEY"
    ELSE IF ~e.pinecone THEN "PINECONE_API_KEY"
    ELSE "none"

\* z.string() without .min(1)
SchemaAcceptsEmpty(b) == b.kind = "string"

\* searchSchema.parse(req.body) returns
SchemaValid(b) == b.kind = "string" /\ Len(b.query) >= 1

ErrorResponse(status, key) ==
    [status |-> status, missingKey |-> key, results |-> << >>]

ResultResponse(list) ==
    [status |-> 200, missingKey |-> "none", results |-> list]

\* the catch of the API-key errors: 503 for a message about an API key
\* that names a provider, else the error goes on to the outer catch (500)
ApiKeyErrorResponse(mentionsApiKey, mentionsOpenai, mentionsPinecone) ==
    IF mentionsApiKey /\ mentionsOpenai
    THEN ErrorResponse(503, "OPENAI_API_KEY")
    ELSE IF mentionsApiKey /\ mentionsPinecone
    THEN ErrorResponse(503, "PINECONE_API_KEY")
    ELSE ErrorResponse(500, "none")

\* the catch around the provider calls with the return of its else
\* branch left out
ProviderCatchNoReturn(err, embedding) ==
    IF err.status = 429 \/ embedding = "undefined"
    THEN [respond |-> FALSE, goOn |-> TRUE]
    ELSE [respond |-> TRUE, goOn |-> TRUE]

\* the catch around the provider calls: fall back on a rate limit or when
\* there is no embedding, else answer 500 and return
ProviderCatch(err, embedding) ==
    IF err.status = 429 \/ embedding = "undefined"
    THEN [respond |-> FALSE, goOn |-> TRUE]
    ELSE [respond |-> TRUE, goOn |-> FALSE]

RequestStart(b) ==
    /\ body' = b
    /\ pc' = "handler"
    /\ specificAttributes' = NoAttributes
    /\ attempt' = 0
    /\ delays' = << >>
    /\ embedCalls' = 0
    /\ searchCalls' = 0
    /\ queryEmbedding' = "undefined"
    /\ providerError' = NoError
    /\ searchResults' = << >>
    /\ fallbackUsed' = FALSE
    /\ results' = << >>
    /\ topResults' = << >>
    /\ responses' = << >>
    /\ UNCHANGED << env, properties >>
    /\ UNCHANGED << filtersResponse, loadVars, clientVars >>

\* a request arrives (the one before it has been answered)
Receive ==
    /\ pc \in {"idle", "done"}
    /\ \E b \in Bodies : RequestStart(b)

\* the handler up to its first provider call: credential checks, schema
\* validation, attribute extraction
HandleRequest ==
    /\ pc = "handler"
    /\ IF MissingKey(env) # "none"
       THEN /\ responses' = Append(responses, ErrorResponse(503, MissingKey(env)))
            /\ pc' = "done"
            /\ UNCHANGED specificAttributes
       ELSE IF ~SchemaValid(body)
       THEN /\ responses' = Append(responses, ErrorResponse(500, "none"))
            /\ pc' = "done"
            /\ UNCHANGED specificAttributes
       ELSE /\ specificAttributes' = ExtractAttributes(body.query)
            /\ pc' = "getEmbedding"
            /\ UNCHANGED responses
    /\ UNCHANGED << env, properties, body, attempt, delays, embedCalls,
                    searchCalls, queryEmbedding, providerError, searchResults,
                    fallbackUsed, results, topResults >>
    /\ UNCHANGED << filtersResponse, loadVars, clientVars >>

\* what the handler does with an error of a provider call
ProviderThrows(err) ==
    LET c == ProviderCatch(err, queryEmbedding)
    IN  /\ providerError' = err
        /\ searchResults' = << >>
        /\ responses' = IF c.respond
                        THEN Append(responses, ErrorResponse(500, "none"))
                        ELSE responses
        /\ pc' = IF c.goOn THEN "rank" ELSE "done"

\* openai.embeddings.create answers with a vector
EmbeddingReturns ==
    /\ pc = "getEmbedding"
    /\ embedCalls' = embedCalls + 1
    /\ queryEmbedding' = "vector"
    /\ pc' = "searchVectors"
    /\ UNCHANGED << env, properties, body, specificAttributes, attempt, delays,
                    searchCalls, providerError, searchResults, fallbackUsed,
                    results, topResults, responses >>
    /\ UNCHANGED << filtersResponse, loadVars, clientVars >>

\* a delay that grows by one second with each attempt
RetryDelayLinear(k) == Min(1000 * (k + 1), 10000)

\* min(1000 * 2^attempt, 10000)
RetryDelay(k) == Min(1000 * 2 ^ k, 10000)

\* a retry after every error while attempts are left
RetriedWhateverError(status, k) == k < maxRetries

\* error.status === 429 && attempt < maxRetries, attempt counted up already
Retried(status, k) == status = 429 /\ k < maxRetries

\* openai.embeddings.create fails with the status: getEmbedding sleeps and
\* retries after a 429 while attempts are left, else it rethrows to the
\* handler
EmbeddingFailsWith(status) ==
    /\ pc = "getEmbedding"
    /\ embedCalls' = embedCalls + 1
    /\ attempt' = attempt + 1
    /\ IF Retried(status, attempt + 1)
       THEN /\ delays' = Append(delays, RetryDelay(attempt + 1))
            /\ UNCHANGED << pc, providerError, searchResults, responses >>
       ELSE /\ ProviderThrows([source |-> "embedding", status |-> status])
            /\ UNCHANGED delays
    /\ UNCHANGED << env, properties, body, specificAttributes, searchCalls,
                    queryEmbedding, fallbackUsed, results, topResults >>
    /\ UNCHANGED << filtersResponse, loadVars, clientVars >>

\* openai.embeddings.create fails
EmbeddingFails == \E status \in ErrorStatuses : EmbeddingFailsWith(status)

\* index.query answers with a list of matches
SearchReturns ==
    /\ pc = "searchVectors"
    /\ \E m \in MatchLists :
          /\ Len(m) > MaxMatches => properties = BigTable
          /\ searchResults' = m
    /\ searchCalls' = searchCalls + 1
    /\ pc' = "rank"
    /\ UNCHANGED << env, properties, body, specificAttributes, attempt, delays,
                    embedCalls, queryEmbedding, providerError, fallbackUsed,
                    results, topResults, responses >>
    /\ UNCHANGED << filtersResponse, loadVars, clientVars >>

\* index.query fails: searchVectors rethrows to the handler
SearchFails ==
    /\ pc = "searchVectors"
    /\ \E status \in ErrorStatuses :
          ProviderThrows([source |-> "search", status |-> status])
    /\ searchCalls' = searchCalls + 1
    /\ UNCHANGED << env, properties, body, specificAttributes, attempt, delays,
                    embedCalls, queryEmbedding, fallbackUsed, results,
                    topResults >>
    /\ UNCHANGED << filtersResponse, loadVars, clientVars >>

\* the listing of the table when a result made of it shared its object
\* with it: the score written to the result is written to the listing
StoredAfterShared(p, r) == [score |-> r.score] @@ p

\* the listing of the table after a result was made of it and scored: a
\* result is a new object ({ ...property, score }), so that what the
\* handler writes to the score, the distance and the exactMatch flag of
\* the result leaves the listing as it was
StoredAfter(p, r) == p

\* the table after the handler has made and scored the results
TableAfter(table, rs) ==
    [k \in 1..Len(table) |->
        LET made == {i \in 1..Len(rs) : rs[i].id = table[k].id}
        IN  IF made = {} THEN table[k]
            ELSE StoredAfter(table[k], rs[CHOOSE i \in made : TRUE])]

\* the handler from the sorted list on: slice, normalise, answer
RankAnswers(ranked) ==
    /\ results' = ranked
    /\ topResults' = Normalize(TopSlice(ranked))
    /\ properties' = TableAfter(properties, ranked)
    /\ responses' = Append(responses,
                           ResultResponse(Normalize(TopSlice(ranked))))

\* the handler after the provider calls: join or fall back, boost, sort,
\* slice, normalise, answer; an error raised on the way goes through the
\* catch of the API-key errors
Rank ==
    /\ pc = "rank"
    /\ fallbackUsed' = (Len(searchResults) = 0)
    /\ IF Len(searchResults) = 0 /\ FallbackThrows(properties, body.query)
       THEN /\ responses' = Append(responses, ApiKeyErrorResponse(FALSE, FALSE, FALSE))
            /\ UNCHANGED << properties, results, topResults >>
       ELSE RankAnswers(RankedResults(properties, body.query,
                                      specificAttributes, searchResults))
    /\ pc' = "done"
    /\ UNCHANGED << env, body, specificAttributes, attempt, delays,
                    embedCalls, searchCalls, queryEmbedding, providerError,
                    searchResults >>
    /\ UNCHANGED << filtersResponse, loadVars, clientVars >>

\* GET /property/filters
GetFilters ==
    /\ filtersResponse' = [status |-> 200,
                           options |-> getFilterOptions(properties)]
    /\ UNCHANGED << env, properties, handlerVars, loadVars, clientVars >>

Init ==
    /\ env \in [openai : BOOLEAN, pinecone : BOOLEAN]
    /\ properties \in Tables
    /\ HandlerAtRest
    /\ LoadAtRest
    /\ ClientAtRest

Next ==
    \/ Receive
    \/ GetFilters
    \/ HandleRequest
    \/ EmbeddingReturns
    \/ EmbeddingFails
    \/ SearchReturns
    \/ SearchFails
    \/ Rank

Spec == Init /\ [][Next]_vars

----------------------------------------------------------------------------
(* The attribute extractor on its own: every query of up to MaxQueryLen *)
(* symbols of ExtractSymbols                                            *)

ExtractSymbols == {"1", "2", " ", "-", "bed", "x"}

InitExtract ==
    /\ env = [openai |-> TRUE, pinecone |-> TRUE]
    /\ properties = EmptyTable
    /\ pc = "extract"
    /\ body \in {StringBody(Text(symbols)) :
                    symbols \in SeqsUpTo(ExtractSymbols, MaxQueryLen)}
    /\ specificAttributes = NoAttributes
    /\ attempt = 0
    /\ delays = << >>
    /\ embedCalls = 0
    /\ searchCalls = 0
    /\ queryEmbedding = "undefined"
    /\ providerError = NoError
    /\ searchResults = << >>
    /\ fallbackUsed = FALSE
    /\ results = << >>
    /\ topResults = << >>
    /\ responses = << >>
    /\ filtersResponse = NoFilters
    /\ LoadAtRest
    /\ ClientAtRest

\* the extraction step of the handler
Extract ==
    /\ pc = "extract"
    /\ specificAttributes' = ExtractAttributes(body.query)
    /\ pc' = "extracted"
    /\ UNCHANGED << env, properties, body, attempt, delays, embedCalls,
                    searchCalls, queryEmbedding, providerError, searchResults,
                    fallbackUsed, results, topResults, responses >>
    /\ UNCHANGED << filtersResponse, loadVars, clientVars >>

SpecExtract == InitExtract /\ [][Extract]_vars

----------------------------------------------------------------------------
(* The attribute extractor on queries with price phrases: one phrase of    *)
(* any keyword with words before and after it, and up to MaxPhrases        *)
(* phrases of the keywords under, over and around                          *)

\* a number as it is written and the suffix after it
PriceNumbers ==
    { [digits |-> << "1" >>, suffix |-> << >>],
      [digits |-> << "1" >>, suffix |-> << "k" >>],
      [digits |-> << "1" >>, suffix |-> << "m" >>],
      [digits |-> << "7", "5", "0" >>, suffix |-> << "k" >>],
      [digits |-> << "5", "0", "0" >>, suffix |-> << "k" >>],
      [digits |-> << "1", ",", "2" >>, suffix |-> << "k" >>],
      [digits |-> << "2" >>, suffix |-> Text(<< " ", "thousand" >>)],
      [digits |-> << "3" >>, suffix |-> Text(<< " ", "million" >>)] }

\* the words between a keyword and its number
PriceJoiners ==
    { << " " >>, << " ", "$" >>, Text(<< " ", "of", " " >>),
      Text(<< " ", "a", " ", "price", " ", "of", " " >>) }

PriceKeywords ==
    {UnderKeywords[k] : k \in 1..Len(UnderKeywords)}
    \cup {OverKeywords[k] : k \in 1..Len(OverKeywords)}
    \cup {AroundKeywords[k] : k \in 1..Len(AroundKeywords)}

PricePhrase(kw, joiner, n) == Chars(kw) \o joiner \o n.digits \o n.suffix

\* the words before and after a phrase
WordsBefore == { << >>, Text(<< "2", " ", "bed", " ", "flat", " " >>) }
WordsAfter == { << >>, Text(<< " ", "flat" >>) }

SinglePhraseQueries ==
    { before \o PricePhrase(kw, joiner, n) \o after :
        before \in WordsBefore, kw \in PriceKeywords, joiner \in PriceJoiners,
        n \in PriceNumbers, after \in WordsAfter }

ShortPhrases ==
    { PricePhrase(kw, << " " >>, n) :
        kw \in {"under", "over", "around"},
        n \in { [digits |-> << "2" >>, suffix |-> << "k" >>],
                [digits |-> << "3" >>, suffix |-> << "m" >>] } }

RECURSIVE JoinPhrases(_)
JoinPhrases(ps) ==
    IF ps = << >> THEN << >>
    ELSE IF Len(ps) = 1 THEN ps[1]
    ELSE ps[1] \o << " " >> \o JoinPhrases(Tail(ps))

MaxPhrases == 3

PhraseQueries == {JoinPhrases(ps) : ps \in SeqsUpTo(ShortPhrases, MaxPhrases)}

InitPrice ==
    /\ env = [openai |-> TRUE, pinecone |-> TRUE]
    /\ properties = EmptyTable
    /\ pc = "extract"
    /\ body \in {StringBody(q) : q \in SinglePhraseQueries \cup PhraseQueries}
    /\ specificAttributes = NoAttributes
    /\ attempt = 0
    /\ delays = << >>
    /\ embedCalls = 0
    /\ searchCalls = 0
    /\ queryEmbedding = "undefined"
    /\ providerError = NoError
    /\ searchResults = << >>
    /\ fallbackUsed = FALSE
    /\ results = << >>
    /\ topResults = << >>
    /\ responses = << >>
    /\ filtersResponse = NoFilters
    /\ LoadAtRest
    /\ ClientAtRest

SpecPrice == InitPrice /\ [][Extract]_vars

----------------------------------------------------------------------------
(* Properties *)

Answered == pc = "done" /\ Len(responses) = 1
Answered200 == Answered /\ responses[1].status = 200

\* C1: when the candidates of a 200 response hold an exact match, every
\* result with exactMatch = true comes before every result without it, and
\* each of the two groups is in non-increasing score order.
C1_ExactMatchesFirst ==
    (Answered200 /\ \E k \in 1..Len(results) : results[k].exactMatch)
    => \A i, j \in 1..Len(topResults) :
          i < j =>
             /\ ~(~topResults[i].exactMatch /\ topResults[j].exactMatch)
             /\ (topResults[i].exactMatch = topResults[j].exactMatch
                   => topResults[i].score >= topResults[j].score)

\* C2: a returned list has at most 20 entries, and no candidate left out
\* of it has a boosted score greater than that of a candidate in it.
C2_TopSliceHoldsBest ==
    Answered200
    => /\ Len(responses[1].results) <= 20
       /\ responses[1].results = topResults
       /\ Len(topResults) = Min(20, Len(results))
       /\ \A i \in 1..Len(topResults) : topResults[i].id = results[i].id
       /\ \A i \in 1..Len(topResults) :
             \A j \in (Len(topResults) + 1)..Len(results) :
                results[j].score <= results[i].score

C2_Witness ==
    /\ Answered200
    /\ ~fallbackUsed
    /\ Len(topResults) = 20
    /\ Len(results) > 20
    /\ \E i \in 1..20 : results[21].score < results[i].score
    /\ \E i \in 1..Len(searchResults) : searchResults[i].id # results[i].id

\* C3: in a non-empty returned slice whose scores before normalisation
\* are not all equal the largest normalised score is 100 and the smallest
\* is 0; when they are all equal every normalised score is 100.
C3_Renormalization ==
    (Answered200 /\ topResults # << >>)
    => LET n == Len(topResults)
           allEqual == \A i, j \in 1..n : results[i].score = results[j].score
       IN  IF allEqual
           THEN \A i \in 1..n : topResults[i].score = 10000
           ELSE /\ \E i \in 1..n : topResults[i].score = 10000
                /\ \E i \in 1..n : topResults[i].score = 0
                /\ \A i \in 1..n : topResults[i].score \in 0..10000

C3_Witness ==
    /\ Answered200
    /\ Len(topResults) >= 3
    /\ \E i \in 1..Len(topResults) : topResults[i].score \notin {0, 10000}
    /\ MinScore(SubSeq(results, 1, Len(topResults))) > 0

\* C4: without OPENAI_API_KEY the answer is 503 naming OPENAI_API_KEY,
\* with it and without PINECONE_API_KEY it is 503 naming PINECONE_API_KEY,
\* and in both cases the request makes no embedding and no search call.
C4_MissingCredential ==
    /\ (~env.openai \/ ~env.pinecone)
       => embedCalls = 0 /\ searchCalls = 0 /\ pc \in {"idle", "handler", "done"}
    /\ (pc = "done" /\ ~env.openai)
       => responses = << ErrorResponse(503, "OPENAI_API_KEY") >>
    /\ (pc = "done" /\ env.openai /\ ~env.pinecone)
       => responses = << ErrorResponse(503, "PINECONE_API_KEY") >>

C4_Witness ==
    /\ pc = "done"
    /\ env.openai /\ ~env.pinecone
    /\ SchemaValid(body)
    /\ responses = << ErrorResponse(503, "PINECONE_API_KEY") >>

\* C5: whenever a provider call of the request failed, with a rate limit
\* or any other error, the fallback matcher runs and the request is
\* answered with a result list.
C5_AnyFailureFallsBack ==
    (pc = "done" /\ providerError # NoError)
    => fallbackUsed /\ Answered200

\* C6: the fallback matcher runs only in a request one of whose provider
\* calls raised an error.
C6_FallbackOnlyAfterError ==
    fallbackUsed => providerError # NoError

\* C7: a provider call that fails with a rejected key is answered with
\* 503 whose missingKey names the key of that provider.
C7_RejectedKeyIs503 ==
    (pc = "done" /\ providerError.status = 401)
    => responses = << ErrorResponse(503,
                         IF providerError.source = "embedding"
                         THEN "OPENAI_API_KEY" ELSE "PINECONE_API_KEY") >>

\* C8: a body whose query is missing, no string or empty gets an error
\* response, and the request makes no embedding and no search call.
C8_MalformedRequest ==
    (pc # "idle" /\ (body.kind # "string" \/ body.query = << >>))
    => /\ embedCalls = 0 /\ searchCalls = 0
       /\ pc \in {"handler", "done"}
       /\ pc = "done" => /\ Len(responses) = 1
                         /\ responses[1].status \in {500, 503}
                         /\ responses[1].results = << >>

C8_Witness ==
    /\ pc = "done"
    /\ env.openai /\ env.pinecone
    /\ body = StringBody(<< >>)
    /\ responses = << ErrorResponse(500, "none") >>

\* C9: a request ends with exactly one response, a 200 holding the whole
\* ranked slice or an error of status 503 or 500: nothing is sent while
\* the request is in the handler, the provider calls of a request are
\* bounded, and the request that has ended has sent one response.
C9_ExactlyOneResponse ==
    /\ pc \in {"handler", "getEmbedding", "searchVectors", "rank"}
       => /\ responses = << >>
          /\ pc = "getEmbedding" => attempt < maxRetries
          /\ embedCalls <= maxRetries /\ searchCalls <= 1
    /\ pc = "done"
       => /\ Len(responses) = 1
          /\ responses[1].status \in {200, 503, 500}
          /\ responses[1].status = 200
                => /\ responses[1].results = topResults
                   /\ Len(topResults) = Min(20, Len(results))
          /\ responses[1].status # 200 => responses[1].results = << >>

C9_Witness ==
    /\ pc = "done"
    /\ providerError = [source |-> "embedding", status |-> 429]
    /\ fallbackUsed
    /\ FallbackThrows(properties, body.query)
    /\ responses = << ErrorResponse(500, "none") >>

\* "<N> bed" stands at i..j of the query: the digits of N, one blank, bed
BedPhraseAt(q, i, j) ==
    /\ 1 <= i /\ i <= j /\ j + 4 <= Len(q)
    /\ \A k \in i..j : q[k] \in Digits
    /\ SubSeq(q, j + 1, j + 4) = << " ", "b", "e", "d" >>
    /\ ParseInt(SubSeq(q, i, j)) > 0

\* a digit, a blank or hyphen and "bed" end before position i
EarlierBedCount(q, i) ==
    \E k \in 1..(i - 1) :
        /\ k + 4 <= Len(q)
        /\ q[k] \in Digits
        /\ q[k + 1] \in {" ", "-"}
        /\ SubSeq(q, k + 2, k + 4) = << "b", "e", "d" >>

\* C10 as stated: for every "<N> bed" the query contains, whatever stands
\* around it, the extracted bedroom count is N.
C10_EveryBedPhrase ==
    pc = "extracted"
    => \A i, j \in 1..Len(body.query) :
          BedPhraseAt(body.query, i, j)
          => specificAttributes.bedrooms = << ParseInt(SubSeq(body.query, i, j)) >>

\* C10: for "<N> bed" in the query, with no digit directly before N and
\* no earlier digit followed by a blank or hyphen and "bed", the extracted
\* bedroom count is N.
C10_FirstBedPhrase ==
    pc = "extracted"
    => \A i, j \in 1..Len(body.query) :
          ( /\ BedPhraseAt(body.query, i, j)
            /\ (i = 1 \/ body.query[i - 1] \notin Digits)
            /\ ~EarlierBedCount(body.query, i) )
          => specificAttributes.bedrooms = << ParseInt(SubSeq(body.query, i, j)) >>

C10_Witness ==
    /\ pc = "extracted"
    /\ \E i, j \in 1..Len(body.query) :
          /\ BedPhraseAt(body.query, i, j)
          /\ i > 1 /\ j > i
          /\ body.query[i - 1] \notin Digits
          /\ ~EarlierBedCount(body.query, i)
          /\ j + 4 < Len(body.query)
          /\ specificAttributes.bedrooms = << ParseInt(SubSeq(body.query, i, j)) >>

----------------------------------------------------------------------------
(* Price phrases *)

\* the value a number with its suffix stands for, in pounds
WrittenValue(n) ==
    ParseInt(SelectSeq(n.digits, LAMBDA c : c # ","))
    * (IF n.suffix = << "k" >> THEN 1000 ELSE 1000000)

\* the words a pattern takes between its keyword and the number: "of"
\* after an under or over keyword, "a price of" after an around keyword
PatternJoiners(kw) ==
    {<< " " >>, << " ", "$" >>}
    \cup (IF kw \in {"around", "about", "approximately", "close to", "near"}
          THEN {Text(<< " ", "a", " ", "price", " ", "of", " " >>)}
          ELSE {Text(<< " ", "of", " " >>)})

\* the price range extracted from the query
ExtractedRange ==
    IF specificAttributes.priceRanges = << >> THEN NoPriceRanges
    ELSE specificAttributes.priceRanges[1]

\* C11: of a query with one price phrase whose number carries the suffix
\* k or m, an under keyword gives max = X * 1000 or X * 1000000, an over
\* keyword gives min likewise, and an around keyword gives the target T
\* with min = 0.8 * T and max = 1.2 * T.
C11_SuffixedPricePhrase ==
    pc = "extracted"
    => \A before \in WordsBefore, after \in WordsAfter, kw \in PriceKeywords,
          joiner \in PriceJoiners, n \in PriceNumbers :
          (/\ n.suffix \in {<< "k" >>, << "m" >>}
           /\ body.query = before \o PricePhrase(kw, joiner, n) \o after
           /\ joiner \in PatternJoiners(kw))
          => LET T == Money(WrittenValue(n))
             IN  /\ kw \in {"under", "below", "less than", "max", "maximum"}
                    => ExtractedRange.max = << T >>
                 /\ kw \in {"over", "above", "more than", "at least", "min",
                             "minimum"}
                    => ExtractedRange.min = << T >>
                 /\ kw \in {"around", "about", "approximately", "close to",
                             "near"}
                    => ExtractedRange = [target |-> << T >>,
                                         min |-> << (4 * T) \div 5 >>,
                                         max |-> << (6 * T) \div 5 >>]

C11_Witness ==
    /\ pc = "extracted"
    /\ body.query = Text(<< "around", " ", "7", "5", "0", "k" >>)
    /\ ExtractedRange = [target |-> << Money(750000) >>,
                         min |-> << Money(600000) >>,
                         max |-> << Money(900000) >>]

\* the three matches of the lowered query
UnderMatched == underPriceMatch(LowerCase(body.query))
OverMatched == overPriceMatch(LowerCase(body.query))
AroundMatched == aroundPriceMatch(LowerCase(body.query))

\* C20 as stated: when an around phrase matches together with an under or
\* an over phrase, the max of the range is still the value of the under
\* phrase and the min is still the value of the over phrase.
C20_AllPatternsApplied ==
    (pc = "extracted" /\ AroundMatched.found)
    => /\ UnderMatched.found
          => ExtractedRange.max
                = << Money(PhrasePrice(LowerCase(body.query), UnderMatched)) >>
       /\ OverMatched.found
          => ExtractedRange.min
                = << Money(PhrasePrice(LowerCase(body.query), OverMatched)) >>

\* C20 amended: the matches are processed in the order under, over,
\* around.  Without an around match the max is the value of the under
\* phrase and the min the value of the over phrase; with an around match
\* of target T the range is T, 0.8 * T and 1.2 * T, whatever an under or
\* over phrase has set.
C20_AroundOverwrites ==
    pc = "extracted"
    => LET q == LowerCase(body.query)
       IN  IF AroundMatched.found
           THEN LET T == Money(PhrasePrice(q, AroundMatched))
                IN  ExtractedRange = [target |-> << T >>,
                                      min |-> << (4 * T) \div 5 >>,
                                      max |-> << (6 * T) \div 5 >>]
           ELSE /\ ExtractedRange.target = << >>
                /\ ExtractedRange.max
                      = IF UnderMatched.found
                        THEN << Money(PhrasePrice(q, UnderMatched)) >> ELSE << >>
                /\ ExtractedRange.min
                      = IF OverMatched.found
                        THEN << Money(PhrasePrice(q, OverMatched)) >> ELSE << >>

C20_Witness ==
    /\ pc = "extracted"
    /\ UnderMatched.found /\ OverMatched.found /\ AroundMatched.found
    /\ ExtractedRange.max
          # << Money(PhrasePrice(LowerCase(body.query), UnderMatched)) >>
    /\ ExtractedRange.min
          # << Money(PhrasePrice(LowerCase(body.query), OverMatched)) >>

----------------------------------------------------------------------------
(* Proximity boost and ranking *)

\* the score of the result of a listing before the boosting pass
BaseScore(id) ==
    IF fallbackUsed
    THEN IF Trim(body.query) = << >> THEN Pts(50)
         ELSE FallbackScore(ListingOf(properties, id), LowerCase(body.query))
    ELSE LET k == CHOOSE k \in 1..Len(searchResults) : searchResults[k].id = id
         IN  searchResults[k].score

\* two listings that differ in nothing the boosting pass reads but their
\* place
SameButPlace(p, n) ==
    \A f \in {"type", "style", "bedrooms", "bathrooms", "price", "view",
              "furnishing"} : p[f] = n[f]

\* distances in metres around every tier limit
SampleDistances ==
    {0, 999, 1000, 4999, 5000, 19999, 20000, 49999, 50000, 60000}

TierOf(d) ==
    CASE d < 1000 -> Pts(40)
      [] d >= 1000 /\ d < 5000 -> Pts(30)
      [] d >= 5000 /\ d < 20000 -> Pts(20)
      [] d >= 20000 /\ d < 50000 -> Pts(10)
      [] OTHER -> 0

\* C12: the proximity boost is 0.4 below 1 km, 0.3 below 5 km, 0.2 below
\* 20 km, 0.1 below 50 km and 0 from 50 km on; of two results of a query
\* that names a target location, made of listings that differ in their
\* place only and with the same score before the boosting pass, the one
\* nearer to the target has a proximity boost at least as large as the
\* other, and when its boost is larger it stands earlier in the response
C12_NearerRanksEarlier ==
    /\ \A d \in SampleDistances : calculateProximityBoost(d) = TierOf(d)
    /\ (pc = "done" /\ specificAttributes.targetLocation # << >>)
       => \A i, j \in 1..Len(topResults) :
            LET near == ListingOf(properties, topResults[i].id)
                far == ListingOf(properties, topResults[j].id)
                target == specificAttributes.targetLocation[1].coordinates
                dNear == calculateDistance(target, near.coordinates)
                dFar == calculateDistance(target, far.coordinates)
            IN  (/\ SameButPlace(near, far)
                 /\ BaseScore(near.id) = BaseScore(far.id)
                 /\ dNear <= dFar)
                => /\ calculateProximityBoost(dNear) >= calculateProximityBoost(dFar)
                   /\ calculateProximityBoost(dNear) > calculateProximityBoost(dFar)
                      => i < j

\* the vector search answers "flat in central London" with the listing in
\* Oxford before the listing in London at the same score, and the
\* response holds the listing in London (0 km, boost 0.4) before the one
\* in Oxford (over 50 km, boost 0)
C12_Witness ==
    /\ pc = "done"
    /\ properties = CityTable
    /\ body.query = Text(<< "flat", " ", "in", " ", "central", " ", "London" >>)
    /\ specificAttributes.targetLocation # << >>
    /\ searchResults = << [id |-> 3, score |-> Pts(50)],
                          [id |-> 1, score |-> Pts(50)] >>
    /\ Len(topResults) = 2
    /\ topResults[1].id = 1 /\ topResults[1].distance = << 0 >>
    /\ topResults[2].id = 3 /\ topResults[2].distance[1] > 500
    /\ calculateProximityBoost(
           calculateDistance(specificAttributes.targetLocation[1].coordinates,
                             CityListing(1).coordinates)) = Pts(40)
    /\ calculateProximityBoost(
           calculateDistance(specificAttributes.targetLocation[1].coordinates,
                             CityListing(3).coordinates)) = 0

----------------------------------------------------------------------------
(* Fallback matcher: what it drops *)

\* the whitespace-delimited terms of a query
TermsOf(q) == {Split(q)[k] : k \in 1..Len(Split(q))} \ {<< >>}

\* no field of the listing contains the query, and none contains a term
\* of it
Unmatched(p, q) ==
    /\ ~AnyFieldIncludes(p, q)
    /\ \A t \in TermsOf(q) : ~AnyFieldIncludes(p, t)

\* C13: in the fallback mode, for every query that is not empty, a listing
\* none of whose seven fields contains the query and none of whose fields
\* contains a whitespace-delimited term of it is not among the results
C13_UnmatchedExcluded ==
    (pc = "done" /\ fallbackUsed /\ body.kind = "string" /\ body.query # << >>)
    => \A k \in 1..Len(properties) :
          Unmatched(properties[k], LowerCase(body.query))
          => \A i \in 1..Len(results) : results[i].id # properties[k].id

----------------------------------------------------------------------------
(* Filter options and the table across requests *)

ValuesOf(f) == {properties[k][f] : k \in 1..Len(properties)}

\* the list holds every value of the field once
ListsEach(list, f) ==
    /\ {list[i] : i \in 1..Len(list)} = ValuesOf(f)
    /\ Len(list) = Cardinality(ValuesOf(f))

\* C14: for a loaded table, the answer of GET /property/filters gives for
\* bedrooms, bathrooms and price the smallest value of the table as min
\* and the largest as max, and each of types, styles, locations, views and
\* furnishings holds every distinct value of the table exactly once
C14_FilterOptions ==
    (filtersResponse.status = 200 /\ properties # << >>)
    => LET o == filtersResponse.options
       IN  /\ \A f \in {"bedrooms", "bathrooms", "price"} :
                /\ o[f].min \in ValuesOf(f)
                /\ o[f].max \in ValuesOf(f)
                /\ \A v \in ValuesOf(f) : o[f].min <= v /\ v <= o[f].max
           /\ ListsEach(o.types, "type")
           /\ ListsEach(o.styles, "style")
           /\ ListsEach(o.locations, "location")
           /\ ListsEach(o.views, "view")
           /\ ListsEach(o.furnishings, "furnishing")

\* the table holds listings of 1, 2 and 3 bedrooms, some of them of the
\* same style, and the answer gives bedrooms.min = 1 and bedrooms.max = 3
C14_Witness ==
    /\ filtersResponse.status = 200
    /\ properties = SmallTable
    /\ ValuesOf("bedrooms") = {1, 2, 3}
    /\ filtersResponse.options.bedrooms = [min |-> 1, max |-> 3]
    /\ Len(filtersResponse.options.styles) < Len(properties)

\* C15: no step of a search request or of a filters request changes the
\* listing table: no listing is added or removed, and no stored listing
\* gains or changes a field
C15_TableUnchanged == [][properties' = properties]_vars

\* a search has been answered from the fallback with results that carry a
\* score, a distance and an exactMatch flag, a filters request has been
\* answered, and the listings of the table carry no score and no distance
C15_Witness ==
    /\ pc = "done"
    /\ fallbackUsed
    /\ filtersResponse.status = 200
    /\ properties = CityTable
    /\ Len(topResults) = 3
    /\ \E i \in 1..Len(topResults) :
          topResults[i].exactMatch /\ topResults[i].distance = << 0 >>
    /\ \A k \in 1..Len(properties) :
          DOMAIN properties[k] = DOMAIN CityListing(k)

----------------------------------------------------------------------------
(* One invocation of getEmbedding *)

\* the handler has validated the request and calls getEmbedding
InitEmbedding ==
    /\ env = [openai |-> TRUE, pinecone |-> TRUE]
    /\ properties \in Tables
    /\ pc = "getEmbedding"
    /\ body \in {StringBody(q) : q \in Queries}
    /\ specificAttributes = ExtractAttributes(body.query)
    /\ attempt = 0
    /\ delays = << >>
    /\ embedCalls = 0
    /\ searchCalls = 0
    /\ queryEmbedding = "undefined"
    /\ providerError = NoError
    /\ searchResults = << >>
    /\ fallbackUsed = FALSE
    /\ results = << >>
    /\ topResults = << >>
    /\ responses = << >>
    /\ filtersResponse = NoFilters
    /\ LoadAtRest
    /\ ClientAtRest

NextEmbedding == EmbeddingReturns \/ EmbeddingFails

\* every call of the provider and every sleep comes to an end
SpecEmbedding ==
    InitEmbedding /\ [][NextEmbedding]_vars /\ WF_vars(NextEmbedding)

\* C17: getEmbedding with maxRetries = 3 calls the provider at most 3
\* times and comes to an end, with a vector or with an error thrown; the
\* wait after the k-th consecutive 429 (k = 1, 2) is min(1000 * 2^k, 10000)
\* ms, so that the waits grow and none is longer than 10 seconds
C17_BoundedRetries ==
    /\ [](/\ embedCalls <= 3
          /\ Len(delays) <= 2
          /\ pc = "getEmbedding" => Len(delays) = embedCalls
          /\ \A k \in 1..Len(delays) :
                /\ delays[k] = (IF 1000 * 2 ^ k <= 10000 THEN 1000 * 2 ^ k
                                ELSE 10000)
                /\ delays[k] <= 10000
                /\ k > 1 => delays[k] = 2 * delays[k - 1]
          /\ pc = "searchVectors" => queryEmbedding = "vector"
          /\ pc \in {"rank", "done"} => providerError.source = "embedding")
    /\ (pc = "getEmbedding") ~> (pc \in {"searchVectors", "rank", "done"})

\* three calls answered with 429: a wait of 2 s, a wait of 4 s, and the
\* third error thrown to the handler
C17_Witness ==
    /\ pc = "rank"
    /\ embedCalls = 3
    /\ delays = << 2000, 4000 >>
    /\ providerError = [source |-> "embedding", status |-> 429]

----------------------------------------------------------------------------
(* A rate-limited embedding provider *)

\* C19: when every embedding call of a request is answered with 429, the
\* request makes at most 3 embedding calls and no vector-search call, runs
\* the fallback, and is answered with HTTP 200 and a result list
C19_RateLimitFallsBack ==
    (pc = "done" /\ providerError = [source |-> "embedding", status |-> 429])
    => /\ embedCalls <= 3
       /\ searchCalls = 0
       /\ fallbackUsed
       /\ Len(responses) = 1
       /\ responses[1].status = 200

----------------------------------------------------------------------------
(* Loading the table: loadPropertyDataFromCSV and its callers.  An await
   is a point where the other invocations and the requests may run. *)

\* what loadMockPropertyData can generate: its listings are drawn with
\* Math.random, under the same ids at every call
MockTables == {SmallTable, CityTable}

\* this.properties.set(id, listing) for each listing: a listing of a known
\* id takes the place of the stored one, the others are added at the end
SetAll(table, listings) ==
    LET ids == {listings[i].id : i \in 1..Len(listings)}
        known == {table[k].id : k \in 1..Len(table)}
    IN  [k \in 1..Len(table) |->
            IF table[k].id \in ids THEN ListingOf(listings, table[k].id)
            ELSE table[k]]
        \o SelectSeq(listings, LAMBDA p : p.id \notin known)

\* an invocation starts: initializeData returns at once when the flag is
\* set, loadPropertyDataFromCSV returns when the table is not empty, else
\* it goes on to the await of its import
LoadEnters(l) ==
    /\ loadPc[l] = "idle"
    /\ loadPc' = [loadPc EXCEPT ![l] =
                     IF l # "timer" /\ isDataInitialized THEN "returned"
                     ELSE IF Len(properties) > 0 THEN "resume"
                     ELSE "import"]
    /\ UNCHANGED << env, properties, handlerVars, filtersResponse, clientVars,
                    isDataInitialized, writers, servedFrom, csvFile >>

\* the import has resolved: the invocation writes the listings of the
\* file, or generated ones when there is no file
LoadWrites(l) ==
    /\ loadPc[l] = "import"
    /\ \E listings \in (IF csvFile = << >> THEN MockTables ELSE {csvFile[1]}) :
          properties' = SetAll(properties, listings)
    /\ writers' = writers \cup {l}
    /\ loadPc' = [loadPc EXCEPT ![l] = "resume"]
    /\ UNCHANGED << env, handlerVars, filtersResponse, clientVars,
                    isDataInitialized, servedFrom, csvFile >>

\* the caller goes on after its await of the load: initializeData sets its
\* flag
LoadReturns(l) ==
    /\ loadPc[l] = "resume"
    /\ loadPc' = [loadPc EXCEPT ![l] = "returned"]
    /\ isDataInitialized' = IF l = "timer" THEN isDataInitialized ELSE TRUE
    /\ UNCHANGED << env, properties, handlerVars, filtersResponse, clientVars,
                    writers, servedFrom, csvFile >>

\* the request whose initializeData has returned is passed on to the
\* routes and answered from the table
ServeRequest(l) ==
    /\ l # "timer"
    /\ loadPc[l] = "returned"
    /\ Len(properties) > 0
    /\ servedFrom = << >>
    /\ servedFrom' = << properties >>
    /\ UNCHANGED << env, properties, handlerVars, filtersResponse, clientVars,
                    loadPc, isDataInitialized, writers, csvFile >>

InitLoad ==
    /\ env = [openai |-> TRUE, pinecone |-> TRUE]
    /\ properties = EmptyTable
    /\ HandlerAtRest
    /\ ClientAtRest
    /\ loadPc = [l \in Loaders |-> "idle"]
    /\ isDataInitialized = FALSE
    /\ writers = {}
    /\ servedFrom = << >>
    /\ csvFile \in {<< >>, << SmallTable >>, << BigTable >>}

NextLoad ==
    \E l \in Loaders :
        \/ LoadEnters(l)
        \/ LoadWrites(l)
        \/ LoadReturns(l)
        \/ ServeRequest(l)

SpecLoad == InitLoad /\ [][NextLoad]_vars

\* C16: whatever the interleaving of the invocations of the load, at most
\* one of them writes listings into the table, and once a request has been
\* served from a table that is not empty the table stays as it was served
C16_PopulatedOnce ==
    /\ Cardinality(writers) <= 1
    /\ servedFrom # << >> => properties = servedFrom[1]

----------------------------------------------------------------------------
(* The client: PropertySearch *)

\* the default filters: nothing selected, every range from min to max
DefaultFilters(options) ==
    [type       |-> << >>,
     style      |-> << >>,
     location   |-> << >>,
     bedrooms   |-> << options.bedrooms.min, options.bedrooms.max >>,
     bathrooms  |-> << options.bathrooms.min, options.bathrooms.max >>,
     price      |-> << options.price.min, options.price.max >>,
     view       |-> << >>,
     furnishing |-> << >>]

\* Array.prototype.includes
ArrayIncludes(list, v) == \E i \in 1..Len(list) : list[i] = v

\* the callback of results.filter in applyFilters
PassesFilters(f, item) ==
    /\ ~(Len(f.type) > 0 /\ ~ArrayIncludes(f.type, item.type))
    /\ ~(Len(f.style) > 0 /\ ~ArrayIncludes(f.style, item.style))
    /\ ~(Len(f.location) > 0 /\ ~ArrayIncludes(f.location, item.location))
    /\ ~(item.bedrooms < f.bedrooms[1] \/ item.bedrooms > f.bedrooms[2])
    /\ ~(item.bathrooms < f.bathrooms[1] \/ item.bathrooms > f.bathrooms[2])
    /\ ~(item.price < f.price[1] \/ item.price > f.price[2])
    /\ ~(Len(f.view) > 0 /\ ~ArrayIncludes(f.view, item.view))
    /\ ~(Len(f.furnishing) > 0 /\ ~ArrayIncludes(f.furnishing, item.furnishing))

\* applyFilters(results): it reads the filters of the render it was made
\* in, and leaves filteredResults alone while there are no filters
applyFilters(f, rs, current) ==
    IF f = << >> THEN current
    ELSE SelectSeq(rs, LAMBDA item : PassesFilters(f[1], item))

\* the tables the server of the client can hold
ClientTables == {SmallTable, CityTable}

\* the result lists a search can be answered with: listings of the table
ClientResponses ==
    {SubSeq(properties, 1, n) : n \in 0..Len(properties)}

\* the key of the filter options that lists the values of a filter
OptionsKey(filterType) == IF filterType = "type" THEN "types" ELSE "styles"

\* the filters a checkbox of the panel toggles and the range a slider sets
ToggledFilters == {"type", "style"}
RangeFilters == {"bedrooms"}

\* the effect on filterData: the options are kept and the filters set to
\* their defaults
FiltersLoaded ==
    /\ filterOptions = << >>
    /\ filterOptions' = << getFilterOptions(properties) >>
    /\ filters' = << DefaultFilters(getFilterOptions(properties)) >>
    /\ UNCHANGED << env, properties, handlerVars, filtersResponse, loadVars,
                    clientResults, filteredResults >>

toggleFilter(filterType, value) ==
    /\ filters # << >>
    /\ LET currentValues == filters[1][filterType]
       IN  filters' = << [filters[1] EXCEPT ![filterType] =
                            IF ArrayIncludes(currentValues, value)
                            THEN SelectSeq(currentValues, LAMBDA item : item # value)
                            ELSE Append(currentValues, value)] >>
    /\ filteredResults' = applyFilters(filters, clientResults, filteredResults)
    /\ UNCHANGED << env, properties, handlerVars, filtersResponse, loadVars,
                    filterOptions, clientResults >>

updateRangeFilter(filterType, index, value) ==
    /\ filters # << >>
    /\ filters' = << [filters[1] EXCEPT ![filterType][index + 1] = value] >>
    /\ filteredResults' = applyFilters(filters, clientResults, filteredResults)
    /\ UNCHANGED << env, properties, handlerVars, filtersResponse, loadVars,
                    filterOptions, clientResults >>

resetFilters ==
    /\ filterOptions # << >>
    /\ filters' = << DefaultFilters(filterOptions[1]) >>
    /\ filteredResults' = applyFilters(filters, clientResults, filteredResults)
    /\ UNCHANGED << env, properties, handlerVars, filtersResponse, loadVars,
                    filterOptions, clientResults >>

\* onSuccess of the search mutation
onSuccess(data) ==
    /\ clientResults' = data
    /\ filteredResults' = applyFilters(filters, data, filteredResults)
    /\ UNCHANGED << env, properties, handlerVars, filtersResponse, loadVars,
                    filterOptions, filters >>

\* a search of the client is answered with a result list
SearchSucceeds == \E data \in ClientResponses : onSuccess(data)

\* a click on a checkbox of the panel
Toggle ==
    /\ filterOptions # << >>
    /\ \E filterType \in ToggledFilters :
          LET values == filterOptions[1][OptionsKey(filterType)]
          IN  \E i \in 1..Len(values) : toggleFilter(filterType, values[i])

\* a move of an end of a slider
SetRange ==
    /\ filterOptions # << >>
    /\ \E filterType \in RangeFilters, index \in {0, 1} :
          \E value \in filterOptions[1][filterType].min
                       ..filterOptions[1][filterType].max :
              updateRangeFilter(filterType, index, value)

InitClient ==
    /\ env = [openai |-> TRUE, pinecone |-> TRUE]
    /\ properties \in ClientTables
    /\ HandlerAtRest
    /\ LoadAtRest
    /\ ClientAtRest

NextClient ==
    \/ FiltersLoaded
    \/ Toggle
    \/ SetRange
    \/ resetFilters
    \/ SearchSucceeds

SpecClient == InitClient /\ [][NextClient]_vars

\* C18: after a search of the client has been answered with a result
\* list, the filters are the defaults (nothing selected, every range from
\* the min to the max of the filter options), whatever they were before
C18_SearchResetsFilters ==
    [][(SearchSucceeds /\ filterOptions # << >>)
       => filters' = << DefaultFilters(filterOptions[1]) >>]_vars


----------------------------------------------------------------------------
(* The multiplier of a price phrase *)

\* the multiplier the suffix written after a number stands for
SuffixMultiplier(suffix) ==
    IF suffix \in {<< "k" >>, Text(<< " ", "thousand" >>)} THEN 1000
    ELSE IF suffix \in {<< "m" >>, Text(<< " ", "million" >>)} THEN 1000000
    ELSE 1

\* the bound a single price phrase of the keyword kw sets
BoundOf(kw) ==
    IF \E k \in 1..Len(UnderKeywords) : UnderKeywords[k] = kw
    THEN ExtractedRange.max
    ELSE IF \E k \in 1..Len(OverKeywords) : OverKeywords[k] = kw
    THEN ExtractedRange.min
    ELSE ExtractedRange.target

\* C21: the multiplier of a price phrase is decided by the suffix written
\* after the number only: for every keyword and every word after the
\* phrase, a number without suffix gives the number itself as the bound, a
\* k or thousand gives the number times 1000 and an m or million the
\* number times 1000000.
C21_SuffixDecidesMultiplier ==
    pc = "extracted"
    => \A before \in WordsBefore, after \in WordsAfter, kw \in PriceKeywords,
          joiner \in PriceJoiners, n \in PriceNumbers :
          (/\ body.query = before \o PricePhrase(kw, joiner, n) \o after
           /\ joiner \in PatternJoiners(kw))
          => BoundOf(kw)
                = << Money(ParseInt(SelectSeq(n.digits, LAMBDA c : c # ","))
                           * SuffixMultiplier(n.suffix)) >>


----------------------------------------------------------------------------
(* The attribute extractor on queries with a location phrase: a keyword,   *)
(* a gap and a place name of the table, as the table writes it or in lower *)
(* case, with words before and after                                       *)

\* what stands between the keyword and the place name
LocationGaps == { << " " >>, << " ", " " >>, Text(<< " ", "central", " " >>) }

\* a place name as the query writes it
WrittenNames ==
    {Chars(PlaceNames[k]) : k \in 1..Len(PlaceNames)}
    \cup {LowerCase(Chars(PlaceNames[k])) : k \in 1..Len(PlaceNames)}

LocationQueries ==
    { before \o Chars(LocationKeywords[k]) \o gap \o name \o after :
        before \in { << >>, Text(<< "flat", " " >>) },
        k \in 1..Len(LocationKeywords), gap \in LocationGaps,
        name \in WrittenNames, after \in WordsAfter }

InitLocation ==
    /\ env = [openai |-> TRUE, pinecone |-> TRUE]
    /\ properties = EmptyTable
    /\ pc = "extract"
    /\ body \in {StringBody(q) : q \in LocationQueries}
    /\ specificAttributes = NoAttributes
    /\ attempt = 0
    /\ delays = << >>
    /\ embedCalls = 0
    /\ searchCalls = 0
    /\ queryEmbedding = "undefined"
    /\ providerError = NoError
    /\ searchResults = << >>
    /\ fallbackUsed = FALSE
    /\ results = << >>
    /\ topResults = << >>
    /\ responses = << >>
    /\ filtersResponse = NoFilters
    /\ LoadAtRest
    /\ ClientAtRest

SpecLocation == InitLocation /\ [][Extract]_vars

\* the text ends with w
EndsWith(s, w) == Len(s) >= Len(w) /\ StartsWith(s, Len(s) - Len(w) + 1, w)

\* C22: for every keyword K of near, close to, in, by, around, next to and
\* every place name P of the list, a query that contains the phrase "K P"
\* gives a place string that is not null and ends in P.
C22_KeywordAndPlace ==
    pc = "extracted"
    => \A k \in 1..Len(LocationKeywords), n \in 1..Len(PlaceNames) :
          (\E i \in 1..Len(body.query) :
              StartsWith(body.query, i,
                         Chars(LocationKeywords[k]) \o << " " >>
                             \o Chars(PlaceNames[n])))
          => /\ specificAttributes.targetLocation # << >>
             /\ EndsWith(specificAttributes.targetLocation[1].name,
                         Chars(PlaceNames[n]))

\* the place names of the table a place string ends in, the letter case
\* left aside
EndingNames(name) ==
    {n \in 1..Len(PlaceNames) :
        EndsWith(LowerCase(name), LowerCase(Chars(PlaceNames[n])))}

\* C23: whenever a place phrase is extracted, the target coordinate is the
\* coordinate the table holds for the place name the phrase ends in,
\* whatever the letter case of the name in the query; the coordinate of
\* London is the fallback of a phrase no name of the table matches.
C23_TargetOfWrittenName ==
    (pc = "extracted" /\ specificAttributes.targetLocation # << >>)
    => \A n \in EndingNames(specificAttributes.targetLocation[1].name) :
          specificAttributes.targetLocation[1].coordinates
              = locationCoordinates(PlaceNames[n])


----------------------------------------------------------------------------
(* The provider calls of a request *)

\* the request has passed the credential checks and the validation
Validated ==
    /\ pc \notin {"idle", "handler"}
    /\ env.openai /\ env.pinecone
    /\ SchemaValid(body)

\* C24 as stated: a request that passes the credential and validation
\* checks makes one call of the embedding provider and one call of the
\* vector search, the latter after the embedding call returned a vector.
C24_OneCallEach ==
    (pc = "done" /\ Validated)
    => /\ embedCalls = 1
       /\ searchCalls = 1
       /\ queryEmbedding = "vector"

\* C24 amended: a request that passes the checks calls the embedding
\* provider at least once and at most three times (once more after each
\* 429 that is retried) and the vector search at most once: once when an
\* embedding call returned a vector, and only after it did, never when
\* getEmbedding threw.  A request each of whose calls succeeds makes one
\* call of each; a request that fails a check makes none.
C24_SearchAfterEmbedding ==
    /\ embedCalls <= 3 /\ searchCalls <= 1
    /\ searchCalls = 1 => queryEmbedding = "vector"
    /\ pc = "searchVectors" => (queryEmbedding = "vector" /\ searchCalls = 0)
    /\ (pc \in {"rank", "done"} /\ Validated)
       => /\ embedCalls >= 1
          /\ embedCalls = Len(delays) + 1
          /\ searchCalls = (IF queryEmbedding = "vector" THEN 1 ELSE 0)
          /\ (providerError = NoError /\ delays = << >>)
             => (embedCalls = 1 /\ searchCalls = 1)
    /\ (pc # "idle" /\ ~(env.openai /\ env.pinecone /\ SchemaValid(body)))
       => (embedCalls = 0 /\ searchCalls = 0)

\* a 429 retried, a vector at the second call, then the vector search
C24_Witness ==
    /\ pc = "done"
    /\ Validated
    /\ embedCalls = 2
    /\ delays = << 2000 >>
    /\ searchCalls = 1
    /\ queryEmbedding = "vector"
    /\ responses[1].status = 200


----------------------------------------------------------------------------
(* The errors getEmbedding retries *)

\* C25: getEmbedding retries after a 429 only.  A provider call that fails
\* with another error makes getEmbedding rethrow that error at once,
\* without a wait and without another provider call (getEmbedding is
\* left), whatever the number of attempts left; and every wait follows a
\* 429.
C25_OnlyRateLimitRetried ==
    [][/\ (\E status \in ErrorStatuses \ {429} : EmbeddingFailsWith(status))
          => /\ delays' = delays
             /\ embedCalls' = embedCalls + 1
             /\ pc' \in {"rank", "done"}
             /\ providerError'.source = "embedding"
             /\ providerError'.status \in ErrorStatuses \ {429}
       /\ delays' # delays
          => /\ EmbeddingFailsWith(429)
             /\ pc' = "getEmbedding"]_vars

\* the first call fails with 401 while two attempts are left: one call, no
\* wait, the error thrown to the handler
C25_Witness ==
    /\ pc = "rank"
    /\ providerError = [source |-> "embedding", status |-> 401]
    /\ embedCalls = 1
    /\ attempt = 1
    /\ delays = << >>


----------------------------------------------------------------------------
(* The boosting pass on its own: the vector search has returned every      *)
(* listing of a table of five, and the query names any combination of a    *)
(* bedroom count, a bathroom count, a type, a price phrase and a place     *)

BoostTable ==
    << Listing(1, "modern", 2, 1, "Flat", 400000, << "no", " ", "view" >>, "London"),
       Listing(2, "modern", 2, 1, "Flat", 470000, << "no", " ", "view" >>, "Downtown"),
       Listing(3, "modern", 2, 1, "House", 400000, << "no", " ", "view" >>, "London"),
       Listing(4, "modern", 0, 1, "Flat", 300000, << "no", " ", "view" >>, "Suburb"),
       Listing(5, "victorian", 3, 2, "Flat", 600000, << "river", " ", "view" >>, "Oxford") >>

\* the phrases of a query, one of each kind or none
BedPhrases == { << >>, Text(<< "0", " ", "bed" >>), Text(<< "2", " ", "bed" >>) }
BathPhrases == { << >>, Text(<< "1", " ", "bath" >>) }
TypePhrases == { << >>, Chars("flat") }
PricePhrases ==
    { << >>,
      Text(<< "under", " ", "0" >>),
      Text(<< "under", " ", "4", "5", "0", "k" >>),
      Text(<< "over", " ", "0" >>),
      Text(<< "over", " ", "4", "5", "0", "k" >>),
      Text(<< "around", " ", "0" >>),
      Text(<< "around", " ", "4", "0", "0", "k" >>) }
PlacePhrases == { << >>, Text(<< "in", " ", "central", " ", "London" >>) }

BoostQueries ==
    { JoinPhrases(SelectSeq(<< b, a, t, p, l >>, LAMBDA x : x # << >>)) :
        b \in BedPhrases, a \in BathPhrases, t \in TypePhrases,
        p \in PricePhrases, l \in PlacePhrases } \ { << >> }

\* what index.query has answered: the five listings with one score, or
\* with scores that fall
BoostMatchLists ==
    { [i \in 1..Len(BoostTable) |-> [id |-> i, score |-> Pts(50)]],
      [i \in 1..Len(BoostTable) |-> [id |-> i, score |-> Pts(95) - Pts(10) * i]] }

InitBoost ==
    /\ env = [openai |-> TRUE, pinecone |-> TRUE]
    /\ properties = BoostTable
    /\ pc = "rank"
    /\ body \in {StringBody(q) : q \in BoostQueries}
    /\ specificAttributes = ExtractAttributes(body.query)
    /\ attempt = 0
    /\ delays = << >>
    /\ embedCalls = 1
    /\ searchCalls = 1
    /\ queryEmbedding = "vector"
    /\ providerError = NoError
    /\ searchResults \in BoostMatchLists
    /\ fallbackUsed = FALSE
    /\ results = << >>
    /\ topResults = << >>
    /\ responses = << >>
    /\ filtersResponse = NoFilters
    /\ LoadAtRest
    /\ ClientAtRest

SpecBoost == InitBoost /\ [][Rank]_vars

\* the candidate satisfies every constraint the attributes hold
Satisfies(p, a) ==
    /\ a.type # << >> => \E k \in 1..Len(a.type) : p.type = a.type[k]
    /\ a.priceRanges # << >>
       => LET r == a.priceRanges[1]
              price == Money(p.price)
          IN  /\ r.min # << >> => price >= r.min[1]
              /\ r.max # << >> => price <= r.max[1]
              /\ r.target # << >>
                 => /\ 5 * (price - r.target[1]) <= r.target[1]
                    /\ 5 * (r.target[1] - price) <= r.target[1]
    /\ a.targetLocation # << >>
       => calculateDistance(a.targetLocation[1].coordinates, p.coordinates)
             <= 2000
    /\ a.bedrooms # << >> => p.bedrooms = a.bedrooms[1]
    /\ a.bathrooms # << >> => p.bathrooms = a.bathrooms[1]

\* the score the vector search gave the listing
RawScore(id) ==
    searchResults[CHOOSE k \in 1..Len(searchResults) :
                      searchResults[k].id = id].score

\* what the boosting pass added to the score of a result
TotalBoost(r) == r.score - RawScore(r.id)

\* the boosts of the attributes of a result, the 0.5 of an exact match
\* left aside
AttributeSum(r) ==
    SumSeq([k \in 1..5 |->
               AttributeChecks(ListingOf(properties, r.id),
                               specificAttributes)[k].boost])

\* C26: for every candidate and every set of extracted attributes, values
\* of 0 included, exactMatch is true if and only if the candidate
\* satisfies every extracted constraint (its type in the type list, its
\* price at least the min, at most the max and within 20% of the target,
\* its distance to the target at most 2 km, its bedroom and bathroom
\* counts equal to the extracted ones), and the candidates with
\* exactMatch = true, and they only, get the 0.5 added.
C26_ExactIffAllSatisfied ==
    (pc = "done" /\ HasAttributes(specificAttributes))
    => \A i \in 1..Len(results) :
          /\ results[i].exactMatch
                <=> Satisfies(ListingOf(properties, results[i].id),
                              specificAttributes)
          /\ TotalBoost(results[i])
                = AttributeSum(results[i])
                  + (IF results[i].exactMatch THEN Pts(50) ELSE 0)


----------------------------------------------------------------------------
(* GET /property/filters while the table is loaded: the route is open from *)
(* the start of the server, the load runs in the background                *)

NextServe == NextLoad \/ GetFilters

SpecServe == InitLoad /\ [][NextServe]_vars

\* Number.isFinite
IsFinite(v) == v # Infinity /\ v # 0 - Infinity

\* C27: in every response of GET /property/filters, one served before the
\* background load has completed included, the min of the bedrooms, of
\* the bathrooms and of the price is at most the max, and the six values
\* are finite numbers.
C27_RangesOrderedAndFinite ==
    filtersResponse.status = 200
    => \A f \in {"bedrooms", "bathrooms", "price"} :
          /\ filtersResponse.options[f].min <= filtersResponse.options[f].max
          /\ IsFinite(filtersResponse.options[f].min)
          /\ IsFinite(filtersResponse.options[f].max)


----------------------------------------------------------------------------
(* The fallback matcher and the text of the query *)

\* C29: in fallback mode every request with a query that is not empty is
\* answered with HTTP 200 and a result list, which may be empty: no text
\* of the query makes the fallback matcher raise an error that is answered
\* with 500.
C29_FallbackNeverThrows ==
    (pc = "done" /\ fallbackUsed /\ SchemaValid(body))
    => /\ Len(responses) = 1
       /\ responses[1].status = 200
       /\ ~FallbackThrows(properties, body.query)


----------------------------------------------------------------------------
(* The list the client shows *)

\* C30: after any sequence of toggles, range changes, resets and answered
\* searches, the list the client shows is the list of the latest search
\* filtered by the filters the panel shows: no list shown goes back to
\* filters older than these.
C30_ShownListFollowsFilters ==
    [][((Toggle \/ SetRange \/ resetFilters \/ SearchSucceeds)
        /\ filters' # << >>)
       => filteredResults'
             = SelectSeq(clientResults',
                         LAMBDA item : PassesFilters(filters'[1], item))]_vars

====
